---- MODULE Spec2Model ----
(***************************************************************************)
(* Verification model of the pharma agent platform's data layer:           *)
(*   - OEEDataSource  (MQTT telemetry client: connection handling,         *)
(*                     reconnection with backoff, message ingestion)       *)
(*   - DataManager    (cache: loadDataType / getCachedData, the            *)
(*                     order/OEE join, OEE history loading)                *)
(*   - fileStore      (saveOEE: the persisted OEE history file)            *)
(*                                                                         *)
(* The MQTT library is outside the repository.  An mqtt client is modelled *)
(* by its life cycle only: it is created "connecting", may become          *)
(* "connected", and emits 'close' once, when its single stream ends        *)
(* (reconnectPeriod is 0, so the library never reopens a stream itself).   *)
(* 'error', 'offline' and 'disconnect' may be emitted by any client at any *)
(* time.                                                                   *)
(***************************************************************************)
EXTENDS Integers, Sequences, FiniteSets, TLC

(***************************************************************************)
(* Program constants                                                       *)
(***************************************************************************)
maxReconnectAttempts == 10
reconnectDelay == 5000
MaxDelayMs == 60000
StaleThresholdMs == 300000
intervalMs == 5000
persistIntervalMs == 60000

(***************************************************************************)
(* Bounds of the model                                                     *)
(***************************************************************************)
\* number of mqtt clients one OEEDataSource may create in a behaviour
MaxClients == 12
\* number of inbound MQTT messages in a behaviour
MaxMsgs == 3
\* number of getCachedData() calls in a behaviour
MaxCalls == 3
\* number of records handed to saveOEE in a behaviour
MaxAppends == 4
\* largest limit passed to getOEEHistoryForAPI
MaxLimit == 3
\* number of event-stream connections in a behaviour
MaxConns == 3
\* number of reloadData() calls in a behaviour
MaxReloads == 1
\* number of changes callers make to values they were handed
MaxCallerOps == 2
\* number of fetchData() calls on remote sources, and how long they are watched
MaxFetches == 3
MaxRemoteMs == 90000
\* number of event streams opened in a behaviour
MaxStreams == 2
MaxRecords == 3
MaxConfigLoads == 6
MaxLosses == 5
\* reconnect timers pending at once when replaced clients raise close
MaxPending == 2
\* clients replaced in a behaviour where replaced clients raise close
MaxReplaced == 2

VARIABLES
  \* ---- OEEDataSource: connection handling
  clients,            \* the mqtt clients created so far: sequence of life-cycle states
  client,             \* this.client: index into clients, 0 for null
  isConnecting,       \* this.isConnecting
  reconnectAttempts,  \* this.reconnectAttempts
  timers,             \* pending setTimeout callbacks of scheduleReconnect: sequence of delays
  lastEvent,          \* the event handled last, with what was true when it arrived
  \* ---- OEEDataSource: ingestion
  data,               \* this.data: Map line -> payload, in insertion order
  now,                \* Date.now()
  arrivals,           \* the messages received so far, each with its arrival time
  \* ---- DataManager: cache
  dataCache,          \* this.dataCache: data type -> cached value ("absent": no entry)
  mockFile,           \* the JSON file MockDataSource reads for "orders"
  calls,              \* the getCachedData() calls that are suspended at an await
  lastCall,           \* the getCachedData() call that finished last
  nCalls,             \* number of getCachedData() calls made so far
  sourceConfigs,      \* DataManager.sourceConfigs: data type -> type of its source
  sapResponse,        \* what the SAP endpoint of the orders answers at present
  tainted,            \* the cache keys whose entry was fetched before the last reload began
  \* ---- DataManager.reloadData
  reloadPc,           \* position of reloadData(): "idle", "config", "next", "fetching", "done"
  reloadIdx,          \* the data type loadAllData() is at
  reloadFetched,      \* the data its loadDataType awaits
  reloads,            \* number of reloadData() calls so far
  reloadKept,         \* the tainted keys when the last reloadData() completed
  \* ---- DataManager.getOrdersWithOEE
  joinPc,             \* position of the getOrdersWithOEE() call: "idle", "orders", "done"
  joinOrders,         \* its local orders
  joinOee,            \* its local oeeData
  joinOut,            \* what it returned
  joinFetched,        \* the datasets it had in the cache and fetched from their source
  \* ---- fileStore and OEESimulator
  fs,                 \* the files: path -> content
  appended,           \* the records handed to saveOEE so far
  simNow,             \* Date.now() of the simulator
  lastPersist,        \* OEESimulator.lastPersist
  \* ---- DataManager.getOEEHistoryForAPI
  apiCall,            \* the last getOEEHistoryForAPI() call: its arguments and what it loaded
  apiOut,             \* what that call returned
  routeOut,           \* the last GET /api/oee/history: its query, the file it read, its answer
  \* ---- server.js: the /events route and the event bus
  sseConns,           \* the event-stream connections opened so far: "open" or "closed"
  activeSSEConnections,
  subscriptions,      \* event bus: topic pattern -> listeners, in registration order
  lastPublish,        \* the last publish: its topic and the listeners it invoked
  heartbeat,          \* the system heartbeat interval: whether it is armed, and the parity of its beats
  \* ---- callers of OEEDataSource.fetchData
  fetchOut,           \* the last fetchData() call: the state it ran in and its outcome
  \* ---- callers that change what they were handed
  callerOp,           \* the last such change: what was read, how it was changed, what it reached
  \* ---- SAPDataSource and RestAPIDataSource: fetchData
  remote,             \* per remote source: its fetchData() call and the timer of that call
  remoteNow,          \* the time, in ms, since the first fetch could start
  nFetches,           \* number of fetchData() calls started so far
  \* ---- DataManager.updateDataEntry
  updateOut,          \* the last updateDataEntry() call: its source, its outcome, what it changed
  managed,            \* DataManager.dataSources and the OEEDataSource instances made so far
  mockUpd,            \* a JSON file of the mock source and the last updateData() call on it
  \* ---- the event streams that listen with on('event', ...)
  streams,            \* the streams opened so far: the route that serves each, its request's state
  hub,                \* the listeners of 'event' in registration order, activeSSEConnections,
                      \* and the responses that have ended
  lastEmit,           \* the last emit of 'event': the listeners then, whose write failed, who was invoked
  lastCleanup         \* the last cleanup of a stream: how often it has run, the hub before and after

connVars == <<clients, client, isConnecting, reconnectAttempts, timers, lastEvent>>
ingestVars == <<data, now, arrivals>>
configVars == <<sourceConfigs, sapResponse>>
cacheVars == <<dataCache, mockFile, calls, lastCall, nCalls, configVars, tainted>>
reloadVars == <<reloadPc, reloadIdx, reloadFetched, reloads, reloadKept>>
joinVars == <<joinPc, joinOrders, joinOee, joinOut, joinFetched>>
logVars == <<fs, appended, simNow, lastPersist>>
apiVars == <<apiCall, apiOut, routeOut>>
sseVars == <<sseConns, activeSSEConnections, subscriptions, lastPublish, heartbeat>>
fetchVars == <<fetchOut>>
callerVars == <<callerOp>>
remoteVars == <<remote, remoteNow, nFetches>>
updateVars == <<updateOut, mockUpd>>
streamVars == <<streams, hub, lastEmit, lastCleanup>>
sourceVars == <<managed>>
otherVars == <<callerVars, remoteVars, updateVars, streamVars, sourceVars>>
vars == <<connVars, ingestVars, cacheVars, reloadVars, joinVars, logVars, apiVars,
         sseVars, fetchVars, otherVars>>

Min(a, b) == IF a <= b THEN a ELSE b

RECURSIVE Pow2(_)
Pow2(n) == IF n <= 0 THEN 1 ELSE 2 * Pow2(n - 1)

(***************************************************************************)
(* OEEDataSource: connection handling                                      *)
(***************************************************************************)

\* The fields connect() and scheduleReconnect() read and write, as one record.
ConnState ==
  [clients |-> clients, client |-> client, isConnecting |-> isConnecting,
   reconnectAttempts |-> reconnectAttempts, timers |-> timers]

\* connect(): returns at once while isConnecting is set; else sets the flag and
\* creates a new mqtt client, which replaces this.client.
connect(s) ==
  IF s.isConnecting
    THEN s
    ELSE [s EXCEPT !.isConnecting = TRUE,
                   !.clients = Append(@, "connecting"),
                   !.client = Len(s.clients) + 1]

\* a backoff that grows by the base delay per attempt
backoffDelayLinear(n) == Min(reconnectDelay * n, MaxDelayMs)

\* delay of the n-th reconnect attempt
backoffDelay(n) == Min(reconnectDelay * Pow2(n - 1), MaxDelayMs)

\* a scheduleReconnect() without the limit test
scheduleReconnectUnbounded(s) ==
  [s EXCEPT !.reconnectAttempts = @ + 1,
            !.timers = Append(@, backoffDelay(s.reconnectAttempts + 1))]

\* scheduleReconnect() with the limit test off by one
scheduleReconnectOffByOne(s) ==
  IF s.reconnectAttempts > maxReconnectAttempts
    THEN s
    ELSE [s EXCEPT !.reconnectAttempts = @ + 1,
                   !.timers = Append(@, Min(reconnectDelay * Pow2(s.reconnectAttempts),
                                            MaxDelayMs))]

\* scheduleReconnect(): gives up at maxReconnectAttempts; else counts the
\* attempt and arms one timer with the backoff delay.
scheduleReconnect(s) ==
  IF s.reconnectAttempts >= maxReconnectAttempts
    THEN s
    ELSE [s EXCEPT !.reconnectAttempts = @ + 1,
                   !.timers = Append(@, backoffDelay(s.reconnectAttempts + 1))]

\* a connect handler that keeps the attempt counter
onConnectKeepsCount(s) == [s EXCEPT !.isConnecting = FALSE]

\* client.on("connect")
onConnect(s) == [s EXCEPT !.reconnectAttempts = 0, !.isConnecting = FALSE]

\* A mutated error handler that also schedules a reconnect, as the close handler does.
onErrorReconnecting(s) == scheduleReconnect([s EXCEPT !.isConnecting = FALSE])

\* client.on("error")
onError(s) == [s EXCEPT !.isConnecting = FALSE]

\* a close handler that forgets to schedule the reconnect
onCloseNoReconnect(s) == [s EXCEPT !.isConnecting = FALSE]

\* client.on("close")
onClose(s) == scheduleReconnect([s EXCEPT !.isConnecting = FALSE])

\* client.on("offline")
onOffline(s) == [s EXCEPT !.isConnecting = FALSE]

\* client.on("disconnect")
onDisconnect(s) == [s EXCEPT !.isConnecting = FALSE]

\* a timer callback that reconnects only when there is no client object
reconnectTimerIfNone(s) == IF s.client = 0 THEN connect(s) ELSE s

\* the callback scheduleReconnect() hands to setTimeout
reconnectTimer(s) ==
  IF s.client = 0 \/ s.clients[s.client] # "connected"
    THEN connect(s)
    ELSE s

\* a status that takes an existing client object for a connected one
getConnectionStatusHasClient(s, d) ==
  [connected |-> s.client # 0,
   reconnectAttempts |-> s.reconnectAttempts,
   dataPoints |-> Len(d)]

\* getConnectionStatus(): this.client?.connected || false, the attempt counter
\* and the size of the data map (brokerUrl is fixed)
getConnectionStatus(s, d) ==
  [connected |-> (s.client # 0 /\ s.clients[s.client] = "connected"),
   reconnectAttempts |-> s.reconnectAttempts,
   dataPoints |-> Len(d)]

RemoveAt(seq, i) == SubSeq(seq, 1, i - 1) \o SubSeq(seq, i + 1, Len(seq))

SetConn(s) ==
  /\ clients' = s.clients
  /\ client' = s.client
  /\ isConnecting' = s.isConnecting
  /\ reconnectAttempts' = s.reconnectAttempts
  /\ timers' = s.timers

\* whether this.client is subscribed after an event of client c: the connect
\* handler of c calls this.client.subscribe(topic), and this.client is c
\* unless c has been replaced; the subscription ends with the connection,
\* and a new client starts without one
subscribedAfter(was, type, c, current, next) ==
  IF type = "connect" /\ c = current THEN TRUE
  ELSE IF type \in {"close", "cleanup"} /\ c = current THEN FALSE
  ELSE IF next # current THEN FALSE
  ELSE was

Event(type, c) ==
  [type |-> type, client |-> c,
   wasConnected |-> (c # 0 /\ clients[c] = "connected"),
   timersBefore |-> Len(timers),
   attemptsBefore |-> reconnectAttempts,
   afterCleanup |-> (lastEvent.afterCleanup \/ type = "cleanup"),
   subscribed |-> subscribedAfter(lastEvent.subscribed, type, c, client, client'),
   scheduled |-> IF type = "connect" THEN 0
                 ELSE IF type # "timer" /\ Len(timers') > Len(timers)
                   THEN lastEvent.scheduled + 1 ELSE lastEvent.scheduled]

\* State after the constructor, with a broker URL configured: connect() has run.
ConnInit ==
  /\ clients = <<"connecting">>
  /\ client = 1
  /\ isConnecting = TRUE
  /\ reconnectAttempts = 0
  /\ timers = <<>>
  /\ lastEvent = [type |-> "construct", client |-> 1, wasConnected |-> FALSE,
                  timersBefore |-> 0, attemptsBefore |-> 0, afterCleanup |-> FALSE,
                  subscribed |-> FALSE, scheduled |-> 0]

\* the broker accepts the connection of client c
OnConnect(c) ==
  /\ clients[c] = "connecting"
  /\ SetConn([onConnect(ConnState) EXCEPT !.clients[c] = "connected"])
  /\ lastEvent' = Event("connect", c)

\* client c emits 'error' (it stays as it is: a fatal error is followed by 'close')
OnError(c) ==
  /\ SetConn(onError(ConnState))
  /\ lastEvent' = Event("error", c)

\* the stream of client c ends
OnClose(c) ==
  /\ clients[c] # "closed"
  /\ SetConn(onClose([ConnState EXCEPT !.clients[c] = "closed"]))
  /\ lastEvent' = Event("close", c)

OnOffline(c) ==
  /\ SetConn(onOffline(ConnState))
  /\ lastEvent' = Event("offline", c)

OnDisconnect(c) ==
  /\ SetConn(onDisconnect(ConnState))
  /\ lastEvent' = Event("disconnect", c)

\* the stream of client c ends while the broker is out of reach, which it is
\* MaxLosses times at most
ConnectionLost(c) ==
  /\ Cardinality({x \in DOMAIN clients : clients[x] = "closed"}) < MaxLosses
  /\ OnClose(c)

\* a client that was replaced raises close (again, if its stream had ended
\* before): its handler runs on the one OEEDataSource all clients share
OnCloseReplaced(c) ==
  /\ c # client
  /\ Len(timers) < MaxPending
  /\ SetConn(onClose([ConnState EXCEPT !.clients[c] = "closed"]))
  /\ lastEvent' = Event("close", c)

\* the i-th pending reconnect timer fires
TimerFire(i) ==
  /\ Len(clients) < MaxClients
  /\ SetConn(reconnectTimer([ConnState EXCEPT !.timers = RemoveAt(@, i)]))
  /\ lastEvent' = Event("timer", client)

(***************************************************************************)
(* OEEDataSource: ingestion                                                *)
(***************************************************************************)
Lines == {"LINE-01", "LINE-02"}

\* payload.timestamp absent, and a timestamp new Date() cannot parse
NoTs == 0
BadTs == -1

\* Date.now() at construction, and the time between two messages
Now0 == 1000000
TickMs == 60000

\* a number or NaN
Num(n) == [nan |-> FALSE, ms |-> n]
NaN == [nan |-> TRUE, ms |-> 0]

\* a < b of JavaScript: false when a is NaN
Less(a, b) == ~a.nan /\ a.ms < b

\* new Date(ts).getTime()
getTime(ts) == IF ts = BadTs THEN NaN ELSE Num(ts)

\* Date.now() - new Date(payload.timestamp).getTime(), 0 without a timestamp
dataAgeOf(payload, t) ==
  IF payload.timestamp = NoTs
    THEN Num(0)
    ELSE IF getTime(payload.timestamp).nan THEN NaN
         ELSE Num(t - getTime(payload.timestamp).ms)

\* Math.floor(ms / 1000)
floorSeconds(ms) == ms \div 1000

\* Math.round(ms / 1000)
roundSeconds(ms) == (ms + 500) \div 1000

\* a set that keeps the stored sample when its timestamp is the newer one
mapSetIfNewer(m, k, v) ==
  IF \E i \in DOMAIN m : m[i].key = k
    THEN [i \in DOMAIN m |->
            IF m[i].key = k /\ m[i].value.timestamp <= v.timestamp
              THEN [key |-> k, value |-> v] ELSE m[i]]
    ELSE Append(m, [key |-> k, value |-> v])

\* Map.prototype.set: replaces the value of an existing key in place, else
\* adds the entry at the end
mapSet(m, k, v) ==
  IF \E i \in DOMAIN m : m[i].key = k
    THEN [i \in DOMAIN m |-> IF m[i].key = k THEN [key |-> k, value |-> v] ELSE m[i]]
    ELSE Append(m, [key |-> k, value |-> v])

\* the freshness test that admits every age
freshAlways(age) == TRUE

\* dataAge < 300_000
fresh(age) == Less(age, StaleThresholdMs)

\* payload.metrics, in percent; NoMetrics: the payload has no metrics
Metrics(a, p, q, oee) == [availability |-> a, performance |-> p, quality |-> q, oee |-> oee]
NoMetrics == Metrics(-1, -1, -1, -1)
SomeMetrics == Metrics(100, 50, 90, 45)

\* The inbound messages.  text: does not start with "{" or "["; badjson:
\* JSON.parse throws; json: an object with or without line and metrics.
\* line "" stands for a missing line.
Payloads(t) ==
  {[line |-> "LINE-01", metrics |-> SomeMetrics, timestamp |-> ts] :
      ts \in {NoTs, BadTs, t, t - (StaleThresholdMs - 1), t - StaleThresholdMs,
              t - (StaleThresholdMs + 1)}}
  \cup {[line |-> "LINE-02", metrics |-> SomeMetrics, timestamp |-> ts] :
      ts \in {t, t - (StaleThresholdMs + 1)}}
  \cup {[line |-> "", metrics |-> SomeMetrics, timestamp |-> t],
        [line |-> "LINE-01", metrics |-> NoMetrics, timestamp |-> t]}

Messages(t) ==
  {[kind |-> "json", payload |-> p] : p \in Payloads(t)}
  \cup {[kind |-> k, payload |-> [line |-> "", metrics |-> NoMetrics, timestamp |-> NoTs]] :
          k \in {"text", "badjson"}}

\* a handler that also removes the stored sample of a line whose new sample is
\* too old
onMessageEvictStale(d, msg, id, t) ==
  IF msg.kind # "json" THEN d
  ELSE IF ~(msg.payload.line # "" /\ msg.payload.metrics # NoMetrics) THEN d
  ELSE IF fresh(dataAgeOf(msg.payload, t))
    THEN mapSet(d, msg.payload.line,
                [line |-> msg.payload.line, id |-> id, metrics |-> msg.payload.metrics,
                 timestamp |-> msg.payload.timestamp, receivedAt |-> t,
                 dataAge |-> roundSeconds(dataAgeOf(msg.payload, t).ms)])
    ELSE SelectSeq(d, LAMBDA e : e.key # msg.payload.line)

\* client.on("message"): the map after message msg with identity id, received at t
onMessage(d, msg, id, t) ==
  IF msg.kind # "json" THEN d
  ELSE IF ~(msg.payload.line # "" /\ msg.payload.metrics # NoMetrics) THEN d
  ELSE IF fresh(dataAgeOf(msg.payload, t))
    THEN mapSet(d, msg.payload.line,
                [line |-> msg.payload.line, id |-> id, metrics |-> msg.payload.metrics,
                 timestamp |-> msg.payload.timestamp, receivedAt |-> t,
                 dataAge |-> roundSeconds(dataAgeOf(msg.payload, t).ms)])
    ELSE d

\* fetchData(): Array.from(this.data.values())
fetchData(d) == [i \in DOMAIN d |-> d[i].value]

IngestInit ==
  /\ data = <<>>
  /\ now = Now0
  /\ arrivals = <<>>

\* a connected client delivers a message; dt is the time since the last one
OnMessage(c, msg, dt) ==
  /\ clients[c] = "connected"
  /\ Len(arrivals) < MaxMsgs
  /\ now' = now + dt
  /\ data' = onMessage(data, msg, Len(arrivals) + 1, now')
  /\ arrivals' = Append(arrivals, [id |-> Len(arrivals) + 1, msg |-> msg, at |-> now'])

(***************************************************************************)
(* OEEDataSource: fetchData and cleanup                                    *)
(***************************************************************************)
\* cleanup(): this.client.end(true) and this.client = null; the ended client
\* still emits its close.  The pending timers are left armed.
cleanup(s) ==
  IF s.client = 0 THEN [s EXCEPT !.isConnecting = FALSE]
  ELSE [s EXCEPT !.clients[s.client] = IF @ = "closed" THEN "closed" ELSE "ended",
                 !.client = 0,
                 !.isConnecting = FALSE]

\* the connection state a caller finds
connPhase(s) ==
  IF s.client = 0 THEN "no-client"
  ELSE IF s.clients[s.client] = "connected" THEN "connected"
  ELSE IF s.clients[s.client] = "connecting" THEN "connecting"
  ELSE IF s.timers # <<>> THEN "reconnecting"
  ELSE IF s.reconnectAttempts >= maxReconnectAttempts THEN "failed"
  ELSE "disconnected"

\* a fetchData() that refuses to answer without a connection
fetchDataCallOnline(s, d) ==
  IF s.client # 0 /\ s.clients[s.client] = "connected"
    THEN [threw |-> FALSE, value |-> fetchData(d)]
    ELSE [threw |-> TRUE, value |-> <<>>]

\* await fetchData(): its outcome in connection state s with data map d
fetchDataCall(s, d) == [threw |-> FALSE, value |-> fetchData(d)]

\* State after the constructor without a broker URL: connect() has not run.
ConnInitNoBroker ==
  /\ clients = <<>>
  /\ client = 0
  /\ isConnecting = FALSE
  /\ reconnectAttempts = 0
  /\ timers = <<>>
  /\ lastEvent = [type |-> "construct", client |-> 0, wasConnected |-> FALSE,
                  timersBefore |-> 0, attemptsBefore |-> 0, afterCleanup |-> FALSE,
                  subscribed |-> FALSE, scheduled |-> 0]

FetchInit ==
  fetchOut = [pc |-> "none", phase |-> "no-client", dataAt |-> <<>>,
              threw |-> FALSE, value |-> <<>>]

Cleanup ==
  /\ SetConn(cleanup(ConnState))
  /\ lastEvent' = Event("cleanup", client)
  /\ data' = <<>>
  /\ UNCHANGED <<now, arrivals>>

FetchData ==
  /\ fetchOut' = [pc |-> "done", phase |-> connPhase(ConnState), dataAt |-> data,
                  threw |-> fetchDataCall(ConnState, data).threw,
                  value |-> fetchDataCall(ConnState, data).value]

(***************************************************************************)
(* DataManager: data sources and cache                                     *)
(***************************************************************************)
\* A JavaScript value, by what the code asks of it: "array" and "object" are
\* truthy, "falsy" is a parsed 0, false or "", "null" is null, "absent" is
\* undefined (no entry, no file).
Val(kind, items) == [kind |-> kind, items |-> items]
Null == Val("null", <<>>)
Absent == Val("absent", <<>>)
Falsy == Val("falsy", <<>>)

\* production orders: operations carry a work center, or none ("")
Order(id, ops) == [orderId |-> id, operations |-> ops]
OrderA == Order("PO-1", <<"LINE-01">>)
OrderB == Order("PO-2", <<"", "LINE-02">>)
OrderC == Order("PO-3", <<>>)
OrderD == Order("PO-4", <<"LINE-01", "LINE-02">>)

\* contents of mock-data/orders.json: no file, text that does not parse, or JSON
CacheFiles ==
  {Val("missing", <<>>), Val("corrupt", <<>>), Falsy, Val("array", <<OrderA>>)}

\* the data types with a source configuration; "equipment" is asked for by
\* the agents but configured nowhere
Configured == {"orders", "oee"}
DataTypes == {"orders", "oee", "equipment"}
\* the keys of dataCache: the data types and the history loadOEEHistory caches
CacheKeys == DataTypes \cup {"oee_history"}

\* MockDataSource.fetchData: null without the file or when it does not
\* parse, else the parsed JSON
mockFetchData(file) ==
  IF file.kind \in {"missing", "corrupt", "null"} THEN Null ELSE file

\* dataSource.fetchData(sourceConfig) for a configured data type
sourceFetch(k, file, d) ==
  IF k = "oee" THEN Val("array", fetchData(d)) ELSE mockFetchData(file)

\* setDefaultConfig with MQTT_BROKER_URL set: the mock source for the orders,
\* the MQTT source for "oee"; "none": no source configuration
DefaultConfig ==
  [k \in DataTypes |-> IF k = "orders" THEN "mock" ELSE IF k = "oee" THEN "oee" ELSE "none"]

\* setDefaultConfig without MQTT_BROKER_URL: "oee" is not configured
NoBrokerConfig == [DefaultConfig EXCEPT !["oee"] = "none"]

\* a configuration file that takes the orders from SAP
SapConfig == [DefaultConfig EXCEPT !["orders"] = "sap"]

\* a configuration file that takes the orders from a REST endpoint
RestConfig == [DefaultConfig EXCEPT !["orders"] = "rest"]

\* what the SAP or REST endpoint may answer; "error": no answer, a status that is not
\* ok, or a timeout
SapResponses == {Val("error", <<>>), Val("array", <<OrderA>>), Val("array", <<OrderA, OrderB>>)}

\* a loadDataType that fetches nothing and so caches nothing
loadDataTypeNoFetch(cfg, k, file, sap, d) == [threw |-> FALSE, data |-> Null]

\* loadDataType(k) as far as its outcome goes: it throws without a source
\* configuration and when the fetch of the SAP or REST source throws
loadDataType(cfg, k, file, sap, d) ==
  IF cfg[k] = "none" THEN [threw |-> TRUE, data |-> Null]
  ELSE IF cfg[k] \in {"sap", "rest"}
    THEN (IF sap.kind = "error" THEN [threw |-> TRUE, data |-> Null]
          ELSE [threw |-> FALSE, data |-> sap])
  ELSE [threw |-> FALSE, data |-> sourceFetch(k, file, d)]

has(cache, k) == cache[k].kind # "absent"

\* x || null
orNull(v) == IF v.kind \in {"absent", "null", "falsy"} THEN Null ELSE v

\* the test of getCachedData that forgets forceRefresh
needsLoadIfMissing(cache, k, forceRefresh) == ~has(cache, k)

\* getCachedData: forceRefresh || !this.dataCache.has(dataType)
needsLoad(cache, k, forceRefresh) == forceRefresh \/ ~has(cache, k)

\* a loadDataType that caches whatever the fetch returned
storeAlways(cache, k, fetched) == [cache EXCEPT ![k] = fetched]

\* loadDataType after the fetch: if (data !== null) this.dataCache.set(dataType, data)
store(cache, k, fetched) ==
  IF fetched.kind # "null" THEN [cache EXCEPT ![k] = fetched] ELSE cache

\* a getCachedData call: pc is where it stands ("fetching": awaiting fetchData
\* in loadDataType; "loaded": awaiting loadDataType; "done"; "threw"; "none":
\* no call yet), the rest is what it saw and did
NewCall(k, forceRefresh) ==
  [key |-> k, force |-> forceRefresh, pc |-> "done",
   hadEntry |-> has(dataCache, k),
   fetched |-> FALSE, fetchRes |-> Null,
   beforeLoad |-> Absent, afterLoad |-> Absent, disturbed |-> FALSE,
   ret |-> Null, gen |-> reloads]

\* the tainted keys after a load stored (or did not store) data under key k;
\* old: the data was fetched before the last reload began
taintAfter(t, k, fetched, old) ==
  IF fetched.kind = "null" THEN t
  ELSE IF old THEN t \cup {k} ELSE t \ {k}

\* State after the constructor: nothing cached; the orders file is in place.
CacheInit ==
  /\ dataCache = [k \in CacheKeys |-> Absent]
  /\ mockFile = Val("array", <<OrderA>>)
  /\ calls = <<>>
  /\ lastCall = [NewCall("orders", FALSE) EXCEPT !.pc = "none"]
  /\ nCalls = 0
  /\ sourceConfigs = DefaultConfig
  /\ sapResponse = Val("array", <<OrderA>>)
  /\ tainted = {}

\* getCachedData(k, forceRefresh) up to its first await, or to its end
GetCachedData(k, forceRefresh) ==
  /\ nCalls < MaxCalls
  /\ nCalls' = nCalls + 1
  /\ IF ~needsLoad(dataCache, k, forceRefresh)
       THEN /\ lastCall' = [NewCall(k, forceRefresh) EXCEPT !.ret = orNull(dataCache[k])]
            /\ calls' = calls
     ELSE IF loadDataType(sourceConfigs, k, mockFile, sapResponse, data).threw
       THEN /\ lastCall' = [NewCall(k, forceRefresh) EXCEPT
                               !.pc = "threw", !.fetched = (sourceConfigs[k] # "none")]
            /\ calls' = calls
     ELSE /\ calls' = Append(calls,
                 [NewCall(k, forceRefresh) EXCEPT
                    !.pc = "fetching", !.fetched = TRUE,
                    !.fetchRes = loadDataType(sourceConfigs, k, mockFile, sapResponse, data).data])
          /\ lastCall' = lastCall
  /\ UNCHANGED <<dataCache, mockFile, configVars, tainted>>

\* loadDataType resumes with the fetched data and caches it
LoadResume(i) ==
  /\ calls[i].pc = "fetching"
  /\ dataCache' = store(dataCache, calls[i].key, calls[i].fetchRes)
  /\ calls' = [j \in DOMAIN calls |->
       IF j = i
         THEN [calls[i] EXCEPT !.pc = "loaded",
                               !.beforeLoad = dataCache[calls[i].key],
                               !.afterLoad = dataCache'[calls[i].key]]
       ELSE IF calls[j].pc = "loaded" /\ calls[j].key = calls[i].key
                 /\ dataCache' # dataCache
         THEN [calls[j] EXCEPT !.disturbed = TRUE]
       ELSE calls[j]]
  /\ tainted' = taintAfter(tainted, calls[i].key, calls[i].fetchRes, calls[i].gen < reloads)
  /\ UNCHANGED <<mockFile, lastCall, nCalls, configVars>>

\* getCachedData resumes and returns this.dataCache.get(dataType) || null
Return(i) ==
  /\ calls[i].pc = "loaded"
  /\ lastCall' = [calls[i] EXCEPT !.pc = "done", !.ret = orNull(dataCache[calls[i].key])]
  /\ calls' = RemoveAt(calls, i)
  /\ UNCHANGED <<dataCache, mockFile, nCalls, configVars, tainted>>

\* the orders file is replaced, removed or damaged
SourceChange(f) ==
  /\ f # mockFile
  /\ mockFile' = f
  /\ UNCHANGED <<dataCache, calls, lastCall, nCalls, configVars, tainted>>

(***************************************************************************)
(* DataManager.reloadData                                                  *)
(***************************************************************************)
\* the data types loadAllData() goes through, in the order of sourceConfigs
ConfigOrder == <<"orders", "oee", "equipment">>

ReloadInit ==
  /\ reloadPc = "idle"
  /\ reloadIdx = 0
  /\ reloadFetched = Null
  /\ reloads = 0
  /\ reloadKept = {}

\* reloadData() up to its first await: this.dataCache.clear()
ReloadData ==
  /\ reloadPc \in {"idle", "done"}
  /\ reloads < MaxReloads
  /\ reloads' = reloads + 1
  /\ dataCache' = [k \in CacheKeys |-> Absent]
  /\ tainted' = {}
  /\ reloadPc' = "config"
  /\ reloadIdx' = 0
  /\ reloadKept' = {}
  /\ UNCHANGED <<reloadFetched, mockFile, calls, lastCall, nCalls, configVars>>

\* loadDataSourceConfig() has set the configuration again; loadAllData() starts
ReloadConfigured ==
  /\ reloadPc = "config"
  /\ reloadPc' = "next"
  /\ reloadIdx' = 1
  /\ UNCHANGED <<reloadFetched, reloads, reloadKept, cacheVars>>

\* loadAllData() calls loadDataType for its next data type; an error it
\* throws is caught and logged
ReloadFetch ==
  /\ reloadPc = "next"
  /\ reloadIdx <= Len(ConfigOrder)
  /\ LET k == ConfigOrder[reloadIdx]
         loaded == loadDataType(sourceConfigs, k, mockFile, sapResponse, data)
     IN IF sourceConfigs[k] = "none" \/ loaded.threw
          THEN reloadIdx' = reloadIdx + 1 /\ UNCHANGED <<reloadPc, reloadFetched>>
          ELSE /\ reloadFetched' = loaded.data
               /\ reloadPc' = "fetching"
               /\ UNCHANGED reloadIdx
  /\ UNCHANGED <<reloads, reloadKept, cacheVars>>

\* that loadDataType resumes with the fetched data and caches it
ReloadResume ==
  /\ reloadPc = "fetching"
  /\ dataCache' = store(dataCache, ConfigOrder[reloadIdx], reloadFetched)
  /\ tainted' = taintAfter(tainted, ConfigOrder[reloadIdx], reloadFetched, FALSE)
  /\ reloadPc' = "next"
  /\ reloadIdx' = reloadIdx + 1
  /\ UNCHANGED <<reloadFetched, reloads, reloadKept, mockFile, calls, lastCall, nCalls, configVars>>

\* loadAllData() is through: reloadData() returns true
ReloadDone ==
  /\ reloadPc = "next"
  /\ reloadIdx > Len(ConfigOrder)
  /\ reloadPc' = "done"
  /\ reloadKept' = tainted
  /\ UNCHANGED <<reloadIdx, reloadFetched, reloads, cacheVars>>

(***************************************************************************)
(* DataManager.getOrdersWithOEE: the order / OEE join                      *)
(***************************************************************************)
\* contents of mock-data/orders.json the join is run on
JoinFiles ==
  {Val("missing", <<>>), Val("object", <<>>), Val("array", <<>>),
   Val("array", <<OrderA>>), Val("array", <<OrderA, OrderB, OrderC>>),
   Val("array", <<OrderD, OrderA, OrderA>>)}

\* x || []
orEmpty(v) == IF v.kind = "null" THEN Val("array", <<>>) ELSE v

\* order.operations?.find(op => op.workCenter), then its workCenter or "UNKNOWN"
workCenterOf(order) ==
  LET withWc == {i \in DOMAIN order.operations : order.operations[i] # ""}
  IN IF withWc = {} THEN "UNKNOWN"
     ELSE order.operations[CHOOSE i \in withWc : \A j \in withWc : i <= j]

NoData == [status |-> "no-data", sample |-> <<>>]

\* oeeData.find(o => o.line === workCenter) || { status: "no-data", metrics: {} }
oeeFor(oeeData, workCenter) ==
  LET hits == {i \in DOMAIN oeeData : oeeData[i].line = workCenter}
  IN IF hits = {} THEN NoData
     ELSE [status |-> "live",
           sample |-> <<oeeData[CHOOSE i \in hits : \A j \in hits : i <= j]>>]

enrich(order, oeeData) ==
  [order |-> order, workCenter |-> workCenterOf(order),
   oee |-> oeeFor(oeeData, workCenterOf(order))]

\* a join that keeps only the orders with live OEE data
joinMatchedOnly(orders, oeeData) ==
  IF orders.kind # "array" THEN <<>>
  ELSE SelectSeq([i \in DOMAIN orders.items |-> enrich(orders.items[i], oeeData)],
                 LAMBDA e : e.oee.status = "live")

\* the result of getOrdersWithOEE from its two locals: [] when orders is no
\* array, else orders.map(...)
joinOrdersWithOEE(orders, oeeData) ==
  IF orders.kind # "array" THEN <<>>
  ELSE [i \in DOMAIN orders.items |-> enrich(orders.items[i], oeeData)]

JoinInit ==
  /\ joinPc = "idle"
  /\ joinOrders = Val("array", <<>>)
  /\ joinOee = <<>>
  /\ joinOut = <<>>
  /\ joinFetched = {}

\* the dataset the call asks for if its source fetch runs although the cache
\* has it: getCachedData with forceRefresh = true calls loadDataType, which
\* calls source.fetchData() when the dataset has a source configuration
fetchedThoughCached(cfg, cache, k, forceRefresh) ==
  IF needsLoad(cache, k, forceRefresh) /\ has(cache, k) /\ cfg[k] # "none"
    THEN {k} ELSE {}

\* getOrdersWithOEE up to its second await:
\* orders = (await this.getCachedData("orders", true)) || []
\* An error thrown by loadDataType is caught nowhere: the call rejects.
JoinFetchOrders ==
  /\ joinPc \in {"idle", "done", "threw"}
  /\ joinFetched' = fetchedThoughCached(sourceConfigs, dataCache, "orders", TRUE)
  /\ LET loaded == loadDataType(sourceConfigs, "orders", mockFile, sapResponse, data)
     IN IF loaded.threw
          THEN /\ joinPc' = "threw"
               /\ UNCHANGED <<dataCache, joinOrders, tainted>>
          ELSE /\ dataCache' = store(dataCache, "orders", loaded.data)
               /\ tainted' = taintAfter(tainted, "orders", loaded.data, FALSE)
               /\ joinOrders' = orEmpty(orNull(dataCache'["orders"]))
               /\ joinPc' = "orders"
  /\ UNCHANGED <<joinOee, joinOut, mockFile, calls, lastCall, nCalls, configVars>>

\* the rest of getOrdersWithOEE:
\* oeeData = (await this.getCachedData("oee", true)) || [], then the map
JoinFinish ==
  /\ joinPc = "orders"
  /\ joinFetched' = joinFetched \cup fetchedThoughCached(sourceConfigs, dataCache, "oee", TRUE)
  /\ LET loaded == loadDataType(sourceConfigs, "oee", mockFile, sapResponse, data)
     IN IF loaded.threw
          THEN /\ joinPc' = "threw"
               /\ UNCHANGED <<dataCache, joinOee, joinOut, tainted>>
          ELSE /\ dataCache' = store(dataCache, "oee", loaded.data)
               /\ tainted' = taintAfter(tainted, "oee", loaded.data, FALSE)
               /\ joinOee' = orEmpty(orNull(dataCache'["oee"])).items
               /\ joinOut' = joinOrdersWithOEE(joinOrders, joinOee')
               /\ joinPc' = "done"
  /\ UNCHANGED <<joinOrders, mockFile, calls, lastCall, nCalls, configVars>>

\* the SAP endpoint changes its answer
SapChange(r) ==
  /\ r # sapResponse
  /\ sapResponse' = r
  /\ UNCHANGED <<dataCache, mockFile, calls, lastCall, nCalls, sourceConfigs, tainted>>

\* OEESimulator.publishOEE: oee = availability * min(performance, 1) * quality,
\* here on metrics in percent
oeeOf(m) == (m.availability * Min(m.performance, 100) * m.quality) \div 10000

\* fresh samples whose metrics carry an oee of their own
OeeMessages(t) ==
  {[kind |-> "json",
    payload |-> [line |-> l, metrics |-> Metrics(100, p, 90, x), timestamp |-> t]] :
     l \in Lines, p \in {50, 120}, x \in {0, 45, 90, 100}}

\* the fresh samples the lines publish
LiveMessages(t) ==
  {[kind |-> "json", payload |-> [line |-> l, metrics |-> SomeMetrics, timestamp |-> t]] :
     l \in Lines}

(***************************************************************************)
(* fileStore.saveOEE, OEESimulator.publishOEE, DataManager.loadOEEHistory  *)
(***************************************************************************)
\* fileStore.js: path.join(process.cwd(), "oee_history.json")
dataFile == "oee_history.json"
\* DataManager.loadOEEHistory: path.join(process.cwd(), 'data', 'oee_history.json')
historyPath == "data/oee_history.json"

Paths == {dataFile, historyPath}

\* JSON.parse(JSON.stringify(x)) of a field: a key whose value is undefined is dropped
jsonField(x) == IF x = "undefined" THEN "absent" ELSE x

\* the object saveOEE pushes, as JSON gives it back
historyRecord(line, payload) ==
  [line |-> line, status |-> jsonField(payload.status),
   batchId |-> jsonField(payload.batchId), oee |-> payload.oee,
   timestamp |-> payload.timestamp]

\* a saveOEE that starts from an empty history whatever the file holds
saveOEEFresh(file, line, payload) ==
  IF ~payload.counters THEN file
  ELSE Val("array", <<historyRecord(line, payload)>>)

\* saveOEE: the content of dataFile after the call.  A file that does not
\* parse, parsed JSON without push(), and a payload without counters throw
\* inside the try: the error is logged and the file is left as it is.
saveOEE(file, line, payload) ==
  IF file.kind = "corrupt" THEN file
  ELSE IF file.kind \notin {"missing", "array"} THEN file
  ELSE IF ~payload.counters THEN file
  ELSE Val("array",
           Append(IF file.kind = "missing" THEN <<>> ELSE file.items,
                  historyRecord(line, payload)))

\* whether saveOEE throws to its caller: its catch logs the error and
\* returns, as the call returns when the record was written
saveOEEThrows == FALSE

\* loadOEEHistory: the parsed file at historyPath, {} without it or on an error
\* (JSON that does not parse; Object.keys(null) in the log line)
loadOEEHistory(files) ==
  IF files[historyPath].kind \in {"missing", "corrupt", "null"}
    THEN Val("object", <<>>)
    ELSE files[historyPath]

\* payloads publishOEE builds for a line at time t
SimPayloads(t) ==
  {[status |-> st, batchId |-> "BATCH-100", counters |-> TRUE, oee |-> o, timestamp |-> t] :
     st \in {"running", "error"}, o \in {0, 45}}

\* payloads of other callers: fields may be undefined
AnyPayloads(t) ==
  {[status |-> st, batchId |-> "BATCH-100", counters |-> c, oee |-> 45, timestamp |-> t] :
     st \in {"running", "undefined"}, c \in BOOLEAN}

LogInit ==
  /\ fs = [p \in Paths |-> Val("missing", <<>>)]
  /\ appended = <<>>
  /\ simNow = Now0
  /\ lastPersist = 0

\* the history file may be there from an earlier run, whole or damaged
LogInitAny ==
  /\ fs \in {[p \in Paths |-> IF p = dataFile THEN f ELSE Val("missing", <<>>)] :
               f \in {Val("missing", <<>>), Val("corrupt", <<>>), Val("object", <<>>),
                      Val("array", <<>>)}}
  /\ appended = <<>>
  /\ simNow = Now0
  /\ lastPersist = 0

LineOrder == <<"LINE-01", "LINE-02">>

RECURSIVE saveAll(_, _, _)
\* this.lines.forEach(line => saveOEE(line, payload)) from line i on
saveAll(file, i, payloadOf) ==
  IF i > Len(LineOrder) THEN file
  ELSE saveAll(saveOEE(file, LineOrder[i], payloadOf[LineOrder[i]]), i + 1, payloadOf)

\* publishOEE, one interval after the last: persists every line when the
\* persist interval has elapsed
PublishOEE(payloadOf) ==
  /\ Len(appended) + Len(LineOrder) <= MaxAppends
  /\ simNow' = simNow + intervalMs
  /\ LET doPersist == simNow' - lastPersist >= persistIntervalMs
     IN IF doPersist
          THEN /\ fs' = [fs EXCEPT ![dataFile] = saveAll(fs[dataFile], 1, payloadOf)]
               /\ appended' = appended \o
                    [i \in DOMAIN LineOrder |->
                       historyRecord(LineOrder[i], payloadOf[LineOrder[i]])]
               /\ lastPersist' = simNow'
          ELSE UNCHANGED <<fs, appended, lastPersist>>

\* saveOEE called on its own
SaveOEE(line, payload) ==
  /\ Len(appended) < MaxAppends
  /\ fs' = [fs EXCEPT ![dataFile] = saveOEE(fs[dataFile], line, payload)]
  /\ appended' = Append(appended, historyRecord(line, payload))
  /\ UNCHANGED <<simNow, lastPersist>>

(***************************************************************************)
(* DataManager.getOEEHistoryForAPI and generateMockOEEHistory              *)
(***************************************************************************)
\* lineId = null
NoLine == "null"

\* an entry of the history file, and the file's line -> entries pairs
Entry(ts, st) == [timestamp |-> ts, status |-> st]
LineEntries(l, es) == [line |-> l, entries |-> es]

\* contents of data/oee_history.json
HistoryFiles ==
  {Val("missing", <<>>), Val("corrupt", <<>>), Null,
   Val("object", <<>>), Val("array", <<>>),
   Val("array", <<[line |-> "LINE-01", status |-> "running", batchId |-> "BATCH-100",
                   oee |-> 45, timestamp |-> Now0]>>),
   Val("object", <<LineEntries("LINE-01", <<>>)>>),
   Val("object", <<LineEntries("LINE-01", <<Entry(Now0 - 2, "running"), Entry(Now0, "")>>),
                   LineEntries("LINE-02", <<Entry(Now0 - 1, "error")>>)>>)}

\* the cache after loadOEEHistory: the parsed file is cached before it is logged
cacheOEEHistory(cache, files) ==
  IF files[historyPath].kind \in {"missing", "corrupt"} THEN cache
  ELSE [cache EXCEPT !["oee_history"] = files[historyPath]]

ApiRecord(ts, l, st, src) ==
  [timestamp |-> ts, lineId |-> l, status |-> st, source |-> src]

RECURSIVE insertNewestFirst(_, _)
\* where a stable sort by (a, b) => new Date(b.timestamp) - new Date(a.timestamp)
\* puts r, coming after the records of sorted
insertNewestFirst(sorted, r) ==
  IF sorted = <<>> THEN <<r>>
  ELSE IF sorted[Len(sorted)].timestamp >= r.timestamp THEN Append(sorted, r)
  ELSE Append(insertNewestFirst(SubSeq(sorted, 1, Len(sorted) - 1), r), sorted[Len(sorted)])

RECURSIVE sortNewestFirst(_)
sortNewestFirst(recs) ==
  IF recs = <<>> THEN <<>>
  ELSE insertNewestFirst(sortNewestFirst(SubSeq(recs, 1, Len(recs) - 1)), recs[Len(recs)])

\* a generator that tags its records like the records of the file
generateMockUntagged(limit, lineId, t, rnd) ==
  LET lines == IF lineId # NoLine THEN <<lineId>> ELSE <<"LINE-01", "LINE-02", "LINE-03">>
  IN sortNewestFirst(
       [i \in 1..limit |->
          ApiRecord(t - (i - 1) * 3 * 60000, lines[((i - 1) % Len(lines)) + 1],
                    IF rnd[i] THEN "maintenance" ELSE "running", "simulator_file")])

\* generateMockOEEHistory(limit, lineId) at time t; rnd[i] is Math.random() > 0.9
\* of record i
generateMockOEEHistory(limit, lineId, t, rnd) ==
  LET lines == IF lineId # NoLine THEN <<lineId>> ELSE <<"LINE-01", "LINE-02", "LINE-03">>
  IN sortNewestFirst(
       [i \in 1..limit |->
          ApiRecord(t - (i - 1) * 3 * 60000, lines[((i - 1) % Len(lines)) + 1],
                    IF rnd[i] THEN "maintenance" ELSE "running", "mock_generator")])

\* the records of one line: entry.status || 'unknown', source 'simulator_file'
lineRecords(le) ==
  [i \in DOMAIN le.entries |->
     ApiRecord(le.entries[i].timestamp, le.line,
               IF le.entries[i].status = "" THEN "unknown" ELSE le.entries[i].status,
               "simulator_file")]

RECURSIVE historyArray(_, _, _)
\* the for ... of Object.entries(historyData) loop from pair i on
historyArray(pairs, i, lineId) ==
  IF i > Len(pairs) THEN <<>>
  ELSE (IF lineId # NoLine /\ pairs[i].line # lineId THEN <<>> ELSE lineRecords(pairs[i]))
       \o historyArray(pairs, i + 1, lineId)

\* .slice(0, limit)
sliceTo(recs, limit) == SubSeq(recs, 1, Min(limit, Len(recs)))

\* getOEEHistoryForAPI(limit, lineId): whether the history was generated, and
\* the history.  The values of a parsed array are objects, no arrays: none is
\* converted.
getOEEHistoryForAPI(files, limit, lineId, t, rnd) ==
  LET historyData == loadOEEHistory(files)
  IN IF historyData.items = <<>>
       THEN [generated |-> TRUE, history |-> generateMockOEEHistory(limit, lineId, t, rnd)]
     ELSE IF historyData.kind = "array"
       THEN [generated |-> FALSE, history |-> <<>>]
     ELSE [generated |-> FALSE,
           history |-> sliceTo(sortNewestFirst(historyArray(historyData.items, 1, lineId)),
                               limit)]

ApiInit ==
  /\ apiCall = [pc |-> "none", limit |-> 0, lineId |-> NoLine, file |-> Val("missing", <<>>),
                generated |-> FALSE]
  /\ apiOut = <<>>
  /\ routeOut = [pc |-> "none", limit |-> 0, lineId |-> NoLine, file |-> Val("missing", <<>>),
                 status |-> 200, generated |-> FALSE, history |-> <<>>]

GetOEEHistoryForAPI(limit, lineId, rnd) ==
  /\ dataCache' = cacheOEEHistory(dataCache, fs)
  /\ tainted' = (IF dataCache' = dataCache THEN tainted ELSE tainted \ {"oee_history"})
  /\ apiCall' = [pc |-> "done", limit |-> limit, lineId |-> lineId, file |-> fs[historyPath],
                 generated |-> getOEEHistoryForAPI(fs, limit, lineId, now, rnd).generated]
  /\ apiOut' = getOEEHistoryForAPI(fs, limit, lineId, now, rnd).history
  /\ UNCHANGED <<mockFile, calls, lastCall, nCalls, configVars, routeOut>>

\* fileData.slice(-limit): the last limit records, all of them for limit = 0
lastRecords(items, limit) ==
  IF limit = 0 \/ limit >= Len(items) THEN items
  ELSE SubSeq(items, Len(items) - limit + 1, Len(items))

\* the records of the file the route answers with: the slice, then
\* historyData.filter(item => item.line === lineId || item.lineId === lineId)
\* (the records of the file have no lineId)
recordsOf(items, limit, lineId) ==
  SelectSeq(lastRecords(items, limit), LAMBDA item : lineId = NoLine \/ item.line = lineId)

\* GET /history of createOEERoutes without startDate and endDate, the event
\* bus holding no OEE events: the file is read, an empty history is replaced
\* by generateOEEHistory(limit, lineId), a file that does not parse is answered
\* with status 500
oeeHistoryRoute(files, limit, lineId, t, rnd) ==
  LET file == files[dataFile]
      historyData == IF file.kind = "array" THEN lastRecords(file.items, limit) ELSE <<>>
  IN IF file.kind = "corrupt"
       THEN [status |-> 500, generated |-> FALSE, history |-> <<>>]
     ELSE IF historyData = <<>>
       THEN [status |-> 200, generated |-> TRUE,
             history |-> generateMockOEEHistory(limit, lineId, t, rnd)]
     ELSE [status |-> 200, generated |-> FALSE,
           history |-> recordsOf(file.items, limit, lineId)]

OeeHistoryRoute(limit, lineId, rnd) ==
  /\ routeOut' = [pc |-> "done", limit |-> limit, lineId |-> lineId, file |-> fs[dataFile],
                  status |-> oeeHistoryRoute(fs, limit, lineId, now, rnd).status,
                  generated |-> oeeHistoryRoute(fs, limit, lineId, now, rnd).generated,
                  history |-> oeeHistoryRoute(fs, limit, lineId, now, rnd).history]
  /\ UNCHANGED <<apiCall, apiOut>>

\* data/oee_history.json is written from outside the program
HistoryFileChange(f) ==
  /\ fs' = [fs EXCEPT ![historyPath] = f]
  /\ UNCHANGED <<appended, simNow, lastPersist>>

(***************************************************************************)
(* server.js: the /events route on the event bus                           *)
(***************************************************************************)
Patterns == {"agent/*", "oee/*", "system/*", "mqtt/*"}

Topic(ns, name) == [ns |-> ns, name |-> name]

Topics ==
  {Topic("agent", "response"), Topic("oee", "status"), Topic("system", "heartbeat"),
   Topic("mqtt", "message"), Topic("audit", "entry")}

\* a pattern "<namespace>/*" matches the topics of its namespace
matches(pattern, topic) ==
  \/ pattern = "agent/*" /\ topic.ns = "agent"
  \/ pattern = "oee/*" /\ topic.ns = "oee"
  \/ pattern = "system/*" /\ topic.ns = "system"
  \/ pattern = "mqtt/*" /\ topic.ns = "mqtt"

\* eventBusManager.subscribe(pattern, listener)
subscribe(subs, pattern, listener) ==
  [subs EXCEPT ![pattern] = Append(@, listener)]

\* eventBusManager.unsubscribe(pattern, listener): idempotent
unsubscribe(subs, pattern, listener) ==
  [subs EXCEPT ![pattern] = SelectSeq(@, LAMBDA l : l # listener)]

PatternOrder == <<"agent/*", "oee/*", "system/*", "mqtt/*">>

RECURSIVE invoked(_, _, _)
\* the listeners a publish to topic invokes, from pattern i on
invoked(subs, topic, i) ==
  IF i > Len(PatternOrder) THEN <<>>
  ELSE (IF matches(PatternOrder[i], topic) THEN subs[PatternOrder[i]] ELSE <<>>)
       \o invoked(subs, topic, i + 1)

\* the subscriptions of the /events handler of a connection
onEventsOpen(subs, c) ==
  subscribe(subscribe(subscribe(subscribe(subs, "agent/*", c), "oee/*", c),
                      "system/*", c), "mqtt/*", c)

\* a cleanup that leaves the "oee/*" subscription in place
onEventsCloseKeepsOee(subs, c) ==
  unsubscribe(unsubscribe(subs, "agent/*", c), "system/*", c)

\* req.on('close'): the handler's cleanup
onEventsClose(subs, c) ==
  unsubscribe(unsubscribe(unsubscribe(subs, "agent/*", c), "oee/*", c), "system/*", c)

SseInit ==
  /\ sseConns = <<>>
  /\ activeSSEConnections = {}
  /\ subscriptions = [p \in Patterns |-> <<>>]
  /\ lastPublish = [topic |-> Topic("none", "none"), invoked |-> <<>>, closedThen |-> {},
                    openThen |-> {}]
  /\ heartbeat = [armed |-> TRUE, beat |-> 0]

\* GET /events
EventsOpen ==
  /\ Len(sseConns) < MaxConns
  /\ sseConns' = Append(sseConns, "open")
  /\ activeSSEConnections' = activeSSEConnections \cup {Len(sseConns) + 1}
  /\ subscriptions' = onEventsOpen(subscriptions, Len(sseConns) + 1)
  /\ UNCHANGED <<lastPublish, heartbeat>>

\* the request of connection c emits close
EventsClose(c) ==
  /\ sseConns[c] = "open"
  /\ sseConns' = [sseConns EXCEPT ![c] = "closed"]
  /\ activeSSEConnections' = activeSSEConnections \ {c}
  /\ subscriptions' = onEventsClose(subscriptions, c)
  /\ UNCHANGED <<lastPublish, heartbeat>>

\* eventBusManager.publishEvent(topic, ...)
Publish(topic) ==
  /\ lastPublish' = [topic |-> topic, invoked |-> invoked(subscriptions, topic, 1),
                     closedThen |-> {c \in DOMAIN sseConns : sseConns[c] = "closed"},
                     openThen |-> {c \in DOMAIN sseConns : sseConns[c] = "open"}]
  /\ UNCHANGED <<sseConns, activeSSEConnections, subscriptions, heartbeat>>

HeartbeatTopic == Topic("system", "heartbeat")

\* a timer that fires once, as setTimeout does
afterBeatOnce(armed) == FALSE

\* setInterval(...): the timer stays armed after its callback has run; nothing
\* calls clearInterval on it
afterBeat(armed) == armed

\* the callback of the system heartbeat interval:
\* eventBusManager.publishEvent('system/heartbeat', { status: 'alive' }, 'system')
SystemHeartbeat ==
  /\ heartbeat.armed
  /\ heartbeat' = [armed |-> afterBeat(heartbeat.armed), beat |-> 1 - heartbeat.beat]
  /\ lastPublish' = [topic |-> HeartbeatTopic,
                     invoked |-> invoked(subscriptions, HeartbeatTopic, 1),
                     closedThen |-> {c \in DOMAIN sseConns : sseConns[c] = "closed"},
                     openThen |-> {c \in DOMAIN sseConns : sseConns[c] = "open"}]
  /\ UNCHANGED <<sseConns, activeSSEConnections, subscriptions>>

(***************************************************************************)
(* Values handed to callers: fetchData, getRealtimeOEEData, getCachedData  *)
(***************************************************************************)
RealtimeStaleMs == 600000

\* getRealtimeOEEData(): the samples received less than ten minutes ago while
\* the client is connected, else []
getRealtimeOEEData(s, d, t) ==
  IF s.client # 0 /\ s.clients[s.client] = "connected"
    THEN SelectSeq(fetchData(d), LAMBDA e : t - e.receivedAt < RealtimeStaleMs)
    ELSE <<>>

\* Array.from(this.data.values()) and its filter() build a new array of the
\* objects the map holds: the map after a caller has assigned v to the dataAge
\* of the returned element that is the object with identity id
writeThrough(d, id, v) ==
  [i \in DOMAIN d |->
     IF d[i].value.id = id THEN [d[i] EXCEPT !.value.dataAge = v] ELSE d[i]]

\* return this.dataCache.get(dataType) || null hands out the cached array
\* itself: the cache after a caller has called pop() on what it was returned
popShared(cache, k) ==
  [cache EXCEPT ![k] = Val(@.kind, SubSeq(@.items, 1, Len(@.items) - 1))]

CallerInit ==
  callerOp = [pc |-> "none", src |-> "none", change |-> "none", n |-> 0, leaked |-> FALSE]

\* a caller of fetchData() or getRealtimeOEEData() changes element i of its
\* result, or shortens the result
CallerChangesSnapshot(src, change, i) ==
  /\ callerOp.n < MaxCallerOps
  /\ src \in {"fetchData", "getRealtimeOEEData"}
  /\ LET result == IF src = "fetchData" THEN fetchData(data)
                   ELSE getRealtimeOEEData(ConnState, data, now)
     IN /\ i \in DOMAIN result
        /\ data' = IF change = "setField"
                     THEN writeThrough(data, result[i].id, result[i].dataAge + 1)
                     ELSE data
        /\ callerOp' = [pc |-> "done", src |-> src, change |-> change,
                        n |-> callerOp.n + 1, leaked |-> data' # data]
  /\ UNCHANGED <<now, arrivals>>

\* a caller of getCachedData(k) that found k cached calls pop() on its result
CallerChangesCached(k) ==
  /\ callerOp.n < MaxCallerOps
  /\ ~needsLoad(dataCache, k, FALSE)
  /\ dataCache[k].kind = "array"
  /\ dataCache[k].items # <<>>
  /\ dataCache' = popShared(dataCache, k)
  /\ callerOp' = [pc |-> "done", src |-> "getCachedData", change |-> "pop",
                  n |-> callerOp.n + 1, leaked |-> dataCache' # dataCache]
  /\ UNCHANGED <<mockFile, calls, lastCall, nCalls, configVars, tainted>>

(***************************************************************************)
(* SAPDataSource.fetchData and RestAPIDataSource.fetchData                 *)
(***************************************************************************)
RemoteSources == {"sap", "rest"}

\* this.timeout = config.timeout || 30000, and 15000 for the REST source
timeoutOf(src) == IF src = "sap" THEN 30000 ELSE 15000

\* the time between two looks at the clock
RemoteTickMs == 15000

\* one fetchData() call.  pc: "idle" (none yet), "fetch" (awaiting fetch()),
\* "json" (awaiting response.json()), "returned", "threwTimeout", "threwError".
\* timer: the setTimeout of the call: "none", "armed", "fired", "cleared".
NoFetch ==
  [pc |-> "idle", timer |-> "none", aborted |-> FALSE, startedAt |-> 0, settledAt |-> 0]

\* fetchData() up to await fetch(): the controller and its timer are created
startFetch(t) ==
  [pc |-> "fetch", timer |-> "armed", aborted |-> FALSE, startedAt |-> t, settledAt |-> 0]

\* clearTimeout(timeoutId): nothing happens to a timer that has fired
clearTimeout(timer) == IF timer = "armed" THEN "cleared" ELSE timer

\* the timer callback: controller.abort()
onTimeout(f) == [f EXCEPT !.timer = "fired", !.aborted = TRUE]

\* the catch block: clearTimeout, then the timeout error for an AbortError and
\* the error itself for every other one
caught(f, name, t) ==
  [f EXCEPT !.timer = clearTimeout(f.timer),
            !.pc = IF name = "AbortError" THEN "threwTimeout" ELSE "threwError",
            !.settledAt = t]

\* a fetchData() that leaves the timer alone once fetch() has resolved
onResponseKeepsTimer(f, ok, t) ==
  IF ok THEN [f EXCEPT !.pc = "json"]
  ELSE caught(f, "Error", t)

\* fetch() resolves with a response: clearTimeout, then the status check
onResponse(f, ok, t) ==
  IF ok THEN [f EXCEPT !.timer = clearTimeout(f.timer), !.pc = "json"]
  ELSE caught([f EXCEPT !.timer = clearTimeout(f.timer)], "Error", t)

\* fetch() rejects: with an AbortError once the controller has aborted, with
\* a network error otherwise
onFetchRejected(f, t) == caught(f, IF f.aborted THEN "AbortError" ELSE "TypeError", t)

\* response.json() resolves and the data is returned, or it rejects
onJson(f, ok, t) ==
  IF ok THEN [f EXCEPT !.pc = "returned", !.settledAt = t]
  ELSE caught(f, "SyntaxError", t)

Pending(f) == f.pc \in {"fetch", "json"}
Settled(f) == f.pc \in {"returned", "threwTimeout", "threwError"}

RemoteInit ==
  /\ remote = [src \in RemoteSources |-> NoFetch]
  /\ remoteNow = 0
  /\ nFetches = 0

StartFetch(src) ==
  /\ ~Pending(remote[src])
  /\ nFetches < MaxFetches
  /\ nFetches' = nFetches + 1
  /\ remote' = [remote EXCEPT ![src] = startFetch(remoteNow)]
  /\ UNCHANGED remoteNow

\* time passes; a timer that is due fires first, and a fetch() whose
\* controller has aborted rejects first
RemoteTick ==
  /\ remoteNow < MaxRemoteMs
  /\ \A src \in RemoteSources :
       /\ ~(remote[src].timer = "armed"
              /\ remoteNow - remote[src].startedAt >= timeoutOf(src))
       /\ ~(remote[src].pc = "fetch" /\ remote[src].aborted)
  /\ remoteNow' = remoteNow + RemoteTickMs
  /\ UNCHANGED <<remote, nFetches>>

\* the setTimeout callback of the call runs
RemoteTimeout(src) ==
  /\ remote[src].timer = "armed"
  /\ remoteNow - remote[src].startedAt >= timeoutOf(src)
  /\ remote' = [remote EXCEPT ![src] = onTimeout(@)]
  /\ UNCHANGED <<remoteNow, nFetches>>

\* the endpoint sends its status line and headers
RemoteResponds(src, ok) ==
  /\ remote[src].pc = "fetch"
  /\ ~remote[src].aborted
  /\ remote' = [remote EXCEPT ![src] = onResponse(@, ok, remoteNow)]
  /\ UNCHANGED <<remoteNow, nFetches>>

\* fetch() rejects: the connection failed, or the controller has aborted
RemoteFetchRejects(src) ==
  /\ remote[src].pc = "fetch"
  /\ remote' = [remote EXCEPT ![src] = onFetchRejected(@, remoteNow)]
  /\ UNCHANGED <<remoteNow, nFetches>>

\* the body arrives whole and parses, or it does not parse or breaks off
RemoteBody(src, ok) ==
  /\ remote[src].pc = "json"
  /\ remote' = [remote EXCEPT ![src] = onJson(@, ok, remoteNow)]
  /\ UNCHANGED <<remoteNow, nFetches>>

(***************************************************************************)
(* DataManager.loadDataSourceConfig and setDefaultConfig                   *)
(***************************************************************************)
\* src/config/data-sources.yaml: no file, text yaml.load throws on, a file
\* whose dataSources name "oee" and known types only, and a file that names
\* "oee" and after it a type createDataSource() throws on
ConfigFiles == {"missing", "corrupt", "valid", "unknown-type"}

\* new OEEDataSource(config): the constructor calls connect() when it has a
\* broker URL, and the instance then holds a client until cleanup()
newOEEDataSource(hasBroker) == IF hasBroker THEN "live" ELSE "idle"

\* DataSourceFactory.createDataSource('oee', ...) and this.dataSources.set('oee', it)
setOee(m, hasBroker) ==
  [made |-> Append(m.made, newOEEDataSource(hasBroker)), oee |-> Len(m.made) + 1]

\* the loop of loadDataSourceConfig over a file that names "oee":
\* if (!this.dataSources.has(sourceConfig.type)) createDataSource(...)
configureOee(m, hasBroker) == IF m.oee # 0 THEN m ELSE setOee(m, hasBroker)

\* setDefaultConfig(): with MQTT_BROKER_URL set it makes an OEEDataSource and
\* sets it under 'oee', whatever is there
setDefaultConfig(m, hasBroker) == IF hasBroker THEN setOee(m, TRUE) ELSE m

\* loadDataSourceConfig(): without a file, and when anything throws, the defaults
loadDataSourceConfig(m, file, hasBroker) ==
  IF file \in {"missing", "corrupt"} THEN setDefaultConfig(m, hasBroker)
  ELSE IF file = "valid" THEN configureOee(m, hasBroker)
  ELSE setDefaultConfig(configureOee(m, hasBroker), hasBroker)

\* DataManager.cleanup() and the shutdown handlers: cleanup() of the sources
\* in this.dataSources
cleanupSources(m) ==
  IF m.oee = 0 THEN m ELSE [m EXCEPT !.made[m.oee] = "cleaned"]

\* the state after the constructor of DataManager
SourceInit == managed = [made |-> <<>>, oee |-> 0]

\* loadDataSourceConfig() as the server calls it at startup and reloadData()
\* calls it afterwards; hasBroker: MQTT_BROKER_URL is set.  The files with
\* dataSources name the sources of the defaults; setDefaultConfig() sets the
\* configuration of "oee" only with a broker URL.
LoadDataSourceConfig(file, hasBroker) ==
  /\ Len(managed.made) < MaxConfigLoads
  /\ managed' = loadDataSourceConfig(managed, file, hasBroker)
  /\ sourceConfigs' = IF file \in {"valid", "unknown-type"} \/ hasBroker THEN DefaultConfig
                      ELSE [k \in DataTypes |->
                              IF k = "oee" THEN sourceConfigs[k] ELSE DefaultConfig[k]]
  /\ UNCHANGED <<dataCache, mockFile, calls, lastCall, nCalls, sapResponse, tainted>>

CleanupSources ==
  /\ managed' = cleanupSources(managed)
  /\ managed' # managed

(***************************************************************************)
(* updateData of the sources and DataManager.updateDataEntry               *)
(***************************************************************************)
ReadOnlySources == {"oee", "sap", "rest"}

\* the message of the error updateData throws on a source that cannot update
updateError(type) ==
  IF type = "oee" THEN "OEEDataSource is read-only"
  ELSE IF type = "sap" THEN "SAPDataSource update not implemented in this version"
  ELSE "RestAPIDataSource update not implemented in this version"

\* MockDataSource.updateData: the entry with this id gets the updates and
\* lastUpdated and the file is written; without such an entry, or without a
\* file that parses to an array, it throws
mockUpdateData(file, entryId) ==
  IF file.kind = "array" /\ \E i \in DOMAIN file.items : file.items[i].orderId = entryId
    THEN [threw |-> FALSE, error |-> "",
          file |-> Val("array",
             [i \in DOMAIN file.items |->
                IF i = (CHOOSE j \in DOMAIN file.items :
                          /\ file.items[j].orderId = entryId
                          /\ \A h \in 1..(j - 1) : file.items[h].orderId # entryId)
                  THEN [orderId |-> file.items[i].orderId,
                        operations |-> file.items[i].operations,
                        lastUpdated |-> TRUE]
                  ELSE file.items[i]])]
    ELSE [threw |-> TRUE, error |-> "not found", file |-> file]

\* an updateData that does nothing on a source that cannot update
updateDataSilent(type, file, entryId) ==
  IF type = "mock" THEN mockUpdateData(file, entryId)
  ELSE [threw |-> FALSE, error |-> "", file |-> file]

\* dataSource.updateData(sourceConfig, entryId, updates)
updateData(type, file, entryId) ==
  IF type = "mock" THEN mockUpdateData(file, entryId)
  ELSE [threw |-> TRUE, error |-> updateError(type), file |-> file]

\* the fields findIndex compares with entryId, in the order of the ||
IdFields == {"id", "orderId", "batchId", "issueId"}

\* items of a JSON file: objects as functions from their keys to strings
ItemA == ("id" :> "X") @@ ("status" :> "open")
ItemB == ("orderId" :> "X") @@ ("status" :> "open") @@ ("lastUpdated" :> "then")
ItemC == ("batchId" :> "Y") @@ ("issueId" :> "X")
ItemD == ("id" :> "Z")
Items == {ItemA, ItemB, ItemC, ItemD}

\* the updates callers pass: none, a changed field, a changed identifier, a
\* lastUpdated of their own
Updates ==
  {<<>>, ("status" :> "closed"), ("id" :> "Y") @@ ("note" :> "n"), ("lastUpdated" :> "mine")}

\* new Date().toISOString() at the time of the update
Stamp == "now"

\* item.id === entryId || item.orderId === entryId || item.batchId === entryId
\* || item.issueId === entryId
isEntry(item, entryId) == \E f \in IdFields \cap DOMAIN item : item[f] = entryId

\* a findIndex that finds the last entry that matches
findIndexLast(items, entryId) ==
  IF \A i \in DOMAIN items : ~isEntry(items[i], entryId) THEN 0
  ELSE CHOOSE i \in DOMAIN items :
         isEntry(items[i], entryId) /\ \A j \in DOMAIN items : j > i => ~isEntry(items[j], entryId)

\* data.findIndex(...): the first index that matches, 0 for -1
findIndex(items, entryId) ==
  IF \A i \in DOMAIN items : ~isEntry(items[i], entryId) THEN 0
  ELSE CHOOSE i \in DOMAIN items :
         isEntry(items[i], entryId) /\ \A j \in 1..(i - 1) : ~isEntry(items[j], entryId)

\* { ...a, ...b }
spread(a, b) == [f \in DOMAIN a \cup DOMAIN b |-> IF f \in DOMAIN b THEN b[f] ELSE a[f]]

\* MockDataSource.updateData(sourceConfig, entryId, updates) on a file: what
\* the file holds afterwards, whether the call threw, and what it returned.
\* readFileSync and JSON.parse throw without a file that parses; the error,
\* like "Entry not found", is logged and thrown on.
mockUpdate(file, entryId, updates) ==
  LET idx == IF file.kind = "array" THEN findIndex(file.items, entryId) ELSE 0
  IN IF idx = 0 THEN [threw |-> TRUE, file |-> file, result |-> <<>>]
     ELSE LET entry == spread(spread(file.items[idx], updates), ("lastUpdated" :> Stamp))
          IN [threw |-> FALSE, file |-> Val("array", [file.items EXCEPT ![idx] = entry]),
              result |-> entry]

MockUpdateInit ==
  mockUpd = [file |-> Val("array", <<>>), pc |-> "none", before |-> Val("array", <<>>),
             entryId |-> "", updates |-> <<>>, threw |-> FALSE, result |-> <<>>]

\* the files an update may find: none, text that does not parse, a JSON
\* object, arrays of items
MockUpdateInitAny ==
  \E f \in {Val("missing", <<>>), Val("corrupt", <<>>), Val("object", <<>>)}
           \cup {Val("array", items) : items \in UNION {[1..n -> Items] : n \in 0..MaxRecords}} :
     mockUpd = [file |-> f, pc |-> "none", before |-> Val("array", <<>>),
                entryId |-> "", updates |-> <<>>, threw |-> FALSE, result |-> <<>>]

MockUpdateData(entryId, updates) ==
  /\ mockUpd.pc = "none"
  /\ mockUpd' = [file |-> mockUpdate(mockUpd.file, entryId, updates).file, pc |-> "done",
                 before |-> mockUpd.file, entryId |-> entryId, updates |-> updates,
                 threw |-> mockUpdate(mockUpd.file, entryId, updates).threw,
                 result |-> mockUpdate(mockUpd.file, entryId, updates).result]
  /\ UNCHANGED updateOut

UpdateInit ==
  /\ updateOut = [pc |-> "none", type |-> "none", threw |-> FALSE, error |-> "",
                  changed |-> FALSE]
  /\ MockUpdateInit

\* updateDataEntry(k, entryId, updates): the update by the source of k, then
\* loadDataType(k) to refresh the cache; every error is logged and thrown on
UpdateDataEntry(k, entryId) ==
  /\ IF sourceConfigs[k] = "none"
       THEN /\ updateOut' = [pc |-> "done", type |-> "none", threw |-> TRUE,
                             error |-> "No source configuration", changed |-> FALSE]
            /\ UNCHANGED <<dataCache, mockFile, tainted>>
     ELSE LET u == updateData(sourceConfigs[k], mockFile, entryId)
              loaded == loadDataType(sourceConfigs, k, u.file, sapResponse, data)
          IN /\ mockFile' = u.file
             /\ dataCache' = IF u.threw \/ loaded.threw THEN dataCache
                             ELSE store(dataCache, k, loaded.data)
             /\ tainted' = IF u.threw \/ loaded.threw THEN tainted
                           ELSE taintAfter(tainted, k, loaded.data, FALSE)
             /\ updateOut' = [pc |-> "done", type |-> sourceConfigs[k],
                              threw |-> u.threw \/ loaded.threw,
                              error |-> IF u.threw THEN u.error
                                        ELSE IF loaded.threw THEN "load" ELSE "",
                              changed |-> <<dataCache', mockFile'>> # <<dataCache, mockFile>>]
  /\ UNCHANGED <<calls, lastCall, nCalls, configVars, mockUpd>>

(***************************************************************************)
(* The event streams on eventBusManager.on('event', ...)                   *)
(***************************************************************************)
\* the routes that serve an event stream: "server" is /events of server.js
\* (its handler catches a failed write and logs it), "index" is /events of
\* routes/index.js (its handler writes unguarded), "part7" is /events of
\* part_007 (its handler catches a failed write and runs cleanup)
StreamKinds == {"server", "index", "part7"}

\* a removeListener that removes the listener added last, whichever it is
removeListenerLast(ls, l) ==
  IF ls = <<>> THEN ls ELSE SubSeq(ls, 1, Len(ls) - 1)

\* eventBusManager.removeListener('event', l): removes l where it is
\* registered, and nothing otherwise
removeListener(ls, l) == SelectSeq(ls, LAMBDA x : x # l)

\* cleanup() of part_007: removeListener, activeSSEConnections.delete(res),
\* and res.end() unless the response has ended
cleanupStream(h, c) ==
  [listeners |-> removeListener(h.listeners, c),
   active |-> h.active \ {c},
   ended |-> h.ended \cup {c}]

\* what the 'close' or 'error' handlers of a stream's request do to the hub:
\* kind "index" has no 'error' handler
onRequestEvent(h, kind, c, event) ==
  IF kind = "part7" THEN cleanupStream(h, c)
  ELSE IF kind = "index" /\ event = "error" THEN h
  ELSE [h EXCEPT !.listeners = removeListener(h.listeners, c)]

\* the listener of stream c runs and its write fails or not: the hub
\* afterwards, and whether the failure left the listener
onEvent(h, kind, c, fails) ==
  IF ~fails THEN [hub |-> h, escaped |-> FALSE]
  ELSE IF kind = "part7" THEN [hub |-> cleanupStream(h, c), escaped |-> FALSE]
  ELSE IF kind = "server" THEN [hub |-> h, escaped |-> FALSE]
  ELSE [hub |-> h, escaped |-> TRUE]

RECURSIVE dispatchUntilFailure(_, _, _, _, _)
\* a dispatch that ends with the first failure that leaves a listener
dispatchUntilFailure(ls, i, kinds, failing, h) ==
  IF i > Len(ls) THEN [hub |-> h, invoked |-> <<>>, escaped |-> {}]
  ELSE LET r == onEvent(h, kinds[ls[i]], ls[i], ls[i] \in failing)
           rest == IF r.escaped THEN [hub |-> r.hub, invoked |-> <<>>, escaped |-> {}]
                   ELSE dispatchUntilFailure(ls, i + 1, kinds, failing, r.hub)
       IN [hub |-> rest.hub,
           invoked |-> <<ls[i]>> \o rest.invoked,
           escaped |-> (IF r.escaped THEN {ls[i]} ELSE {}) \cup rest.escaped]

RECURSIVE dispatch(_, _, _, _, _)
\* the hub delivers an event to the listeners ls registered when the emit
\* began, from the i-th on, in registration order; a failure that leaves a
\* listener does not end the delivery
dispatch(ls, i, kinds, failing, h) ==
  IF i > Len(ls) THEN [hub |-> h, invoked |-> <<>>, escaped |-> {}]
  ELSE LET r == onEvent(h, kinds[ls[i]], ls[i], ls[i] \in failing)
           rest == dispatch(ls, i + 1, kinds, failing, r.hub)
       IN [hub |-> rest.hub,
           invoked |-> <<ls[i]>> \o rest.invoked,
           escaped |-> (IF r.escaped THEN {ls[i]} ELSE {}) \cup rest.escaped]

StreamInit ==
  /\ streams = <<>>
  /\ hub = [listeners |-> <<>>, active |-> {}, ended |-> {}]
  /\ lastEmit = [pc |-> "none", listenersThen |-> <<>>, failing |-> {}, invoked |-> <<>>,
                 escaped |-> {}]
  /\ lastCleanup = [stream |-> 0, n |-> 0,
                    before |-> [listeners |-> <<>>, active |-> {}, ended |-> {}],
                    after |-> [listeners |-> <<>>, active |-> {}, ended |-> {}]]

\* GET /events on one of the routes
StreamOpen(kind) ==
  /\ Len(streams) < MaxStreams
  /\ streams' = Append(streams, [kind |-> kind, req |-> "open", cleanups |-> 0])
  /\ hub' = [hub EXCEPT !.listeners = Append(@, Len(streams) + 1),
                        !.active = IF kind = "part7" THEN @ \cup {Len(streams) + 1} ELSE @]
  /\ UNCHANGED <<lastEmit, lastCleanup>>

\* the request of stream c emits 'error' (its 'close' follows), or 'close'
StreamRequestEvent(c, event) ==
  /\ \/ event = "error" /\ streams[c].req = "open"
     \/ event = "close" /\ streams[c].req \in {"open", "errored"}
  /\ hub' = onRequestEvent(hub, streams[c].kind, c, event)
  /\ streams' = [streams EXCEPT ![c].req = IF event = "error" THEN "errored" ELSE "closed",
                                ![c].cleanups = IF streams[c].kind = "index" /\ event = "error"
                                                  THEN @ ELSE @ + 1]
  /\ lastCleanup' = IF streams[c].kind = "index" /\ event = "error" THEN lastCleanup
                    ELSE [stream |-> c, n |-> streams'[c].cleanups, before |-> hub, after |-> hub']
  /\ UNCHANGED lastEmit

\* an event is emitted; the writes of the listeners in failing fail
Emit(failing) ==
  /\ hub.listeners # <<>>
  /\ LET kinds == [c \in DOMAIN streams |-> streams[c].kind]
         r == dispatch(hub.listeners, 1, kinds, failing, hub)
         cleaned == {c \in DOMAIN streams : c \in r.hub.ended \ hub.ended}
     IN /\ hub' = r.hub
        /\ lastEmit' = [pc |-> "done", listenersThen |-> hub.listeners, failing |-> failing,
                        invoked |-> r.invoked, escaped |-> r.escaped]
        /\ streams' = [c \in DOMAIN streams |->
                         IF c \in failing /\ streams[c].kind = "part7"
                              /\ \E i \in DOMAIN hub.listeners : hub.listeners[i] = c
                           THEN [streams[c] EXCEPT !.cleanups = @ + 1]
                           ELSE streams[c]]
        /\ UNCHANGED lastCleanup

OtherInit == CallerInit /\ RemoteInit /\ UpdateInit /\ StreamInit /\ SourceInit

(***************************************************************************)
(* Specifications                                                          *)
(***************************************************************************)
Init ==
  /\ ReloadInit /\ OtherInit
  /\ ConnInit /\ IngestInit /\ CacheInit /\ JoinInit /\ LogInit /\ ApiInit /\ SseInit /\ FetchInit

\* The connection state machine of OEEDataSource.
Next ==
  \/ \E c \in DOMAIN clients : OnConnect(c) /\ UNCHANGED <<ingestVars, cacheVars, joinVars, logVars, apiVars, sseVars, fetchVars, reloadVars, otherVars>>
  \/ \E c \in DOMAIN clients : OnError(c) /\ UNCHANGED <<ingestVars, cacheVars, joinVars, logVars, apiVars, sseVars, fetchVars, reloadVars, otherVars>>
  \/ \E c \in DOMAIN clients : OnClose(c) /\ UNCHANGED <<ingestVars, cacheVars, joinVars, logVars, apiVars, sseVars, fetchVars, reloadVars, otherVars>>
  \/ \E c \in DOMAIN clients : OnOffline(c) /\ UNCHANGED <<ingestVars, cacheVars, joinVars, logVars, apiVars, sseVars, fetchVars, reloadVars, otherVars>>
  \/ \E c \in DOMAIN clients : OnDisconnect(c) /\ UNCHANGED <<ingestVars, cacheVars, joinVars, logVars, apiVars, sseVars, fetchVars, reloadVars, otherVars>>
  \/ \E i \in DOMAIN timers : TimerFire(i) /\ UNCHANGED <<ingestVars, cacheVars, joinVars, logVars, apiVars, sseVars, fetchVars, reloadVars, otherVars>>

Spec == Init /\ [][Next]_vars

\* Reconnection: the connection is lost a few times, then the broker stays
\* in reach.  A pending timer fires and a reachable broker accepts a client
\* that is connecting: both are weakly fair.  Errors come as they like.
ConnOthers == <<ingestVars, cacheVars, joinVars, logVars, apiVars, sseVars, fetchVars, reloadVars, otherVars>>

NextReconnect ==
  \/ \E c \in DOMAIN clients : OnConnect(c) /\ UNCHANGED ConnOthers
  \/ \E c \in DOMAIN clients : ConnectionLost(c) /\ UNCHANGED ConnOthers
  \/ \E c \in DOMAIN clients : OnError(c) /\ UNCHANGED ConnOthers
  \/ \E i \in DOMAIN timers : TimerFire(i) /\ UNCHANGED ConnOthers

SpecReconnect ==
  /\ Init /\ [][NextReconnect]_vars
  /\ WF_vars(\E c \in DOMAIN clients : OnConnect(c) /\ UNCHANGED ConnOthers)
  /\ WF_vars(\E i \in DOMAIN timers : TimerFire(i) /\ UNCHANGED ConnOthers)

\* Reconnection under stray events: a client that was replaced raises close
\* whenever it likes, and a few clients are replaced.
NextStray ==
  \/ \E c \in DOMAIN clients : OnConnect(c) /\ UNCHANGED ConnOthers
  \/ \E c \in DOMAIN clients : OnClose(c) /\ UNCHANGED ConnOthers
  \/ \E c \in DOMAIN clients : OnCloseReplaced(c) /\ UNCHANGED ConnOthers
  \/ \E i \in DOMAIN timers :
        Len(clients) <= MaxReplaced /\ TimerFire(i) /\ UNCHANGED ConnOthers

SpecStray == Init /\ [][NextStray]_vars

\* Message ingestion: one client connects, delivers messages and may lose
\* its connection.
NextIngest ==
  \/ \E c \in DOMAIN clients : OnConnect(c) /\ UNCHANGED <<ingestVars, cacheVars, joinVars, logVars, apiVars, sseVars, fetchVars, reloadVars, otherVars>>
  \/ \E c \in DOMAIN clients : OnClose(c) /\ UNCHANGED <<ingestVars, cacheVars, joinVars, logVars, apiVars, sseVars, fetchVars, reloadVars, otherVars>>
  \/ \E c \in DOMAIN clients : \E dt \in {0, TickMs} : \E msg \in Messages(now + dt) :
        OnMessage(c, msg, dt) /\ UNCHANGED <<connVars, cacheVars, joinVars, logVars, apiVars, sseVars, fetchVars, reloadVars, otherVars>>

SpecIngest == Init /\ [][NextIngest]_vars

\* The cache: concurrent getCachedData calls while the orders file changes.
NextCache ==
  \/ \E f \in BOOLEAN :
        GetCachedData("orders", f) /\ UNCHANGED <<connVars, ingestVars, joinVars, logVars, apiVars, sseVars, fetchVars, reloadVars, otherVars>>
  \/ GetCachedData("equipment", FALSE) /\ UNCHANGED <<connVars, ingestVars, joinVars, logVars, apiVars, sseVars, fetchVars, reloadVars, otherVars>>
  \/ \E i \in DOMAIN calls : LoadResume(i) /\ UNCHANGED <<connVars, ingestVars, joinVars, logVars, apiVars, sseVars, fetchVars, reloadVars, otherVars>>
  \/ \E i \in DOMAIN calls : Return(i) /\ UNCHANGED <<connVars, ingestVars, joinVars, logVars, apiVars, sseVars, fetchVars, reloadVars, otherVars>>
  \/ \E f \in CacheFiles : SourceChange(f) /\ UNCHANGED <<connVars, ingestVars, joinVars, logVars, apiVars, sseVars, fetchVars, reloadVars, otherVars>>

SpecCache == Init /\ [][NextCache]_vars

\* The join: getOrdersWithOEE runs while samples arrive and the orders file changes.
NextJoin ==
  \/ \E c \in DOMAIN clients : OnConnect(c) /\ UNCHANGED <<ingestVars, cacheVars, joinVars, logVars, apiVars, sseVars, fetchVars, reloadVars, otherVars>>
  \/ \E c \in DOMAIN clients : \E msg \in LiveMessages(now) :
        OnMessage(c, msg, 0) /\ UNCHANGED <<connVars, cacheVars, joinVars, logVars, apiVars, sseVars, fetchVars, reloadVars, otherVars>>
  \/ \E f \in JoinFiles : SourceChange(f) /\ UNCHANGED <<connVars, ingestVars, joinVars, logVars, apiVars, sseVars, fetchVars, reloadVars, otherVars>>
  \/ JoinFetchOrders /\ UNCHANGED <<connVars, ingestVars, logVars, apiVars, sseVars, fetchVars, reloadVars, otherVars>>
  \/ JoinFinish /\ UNCHANGED <<connVars, ingestVars, logVars, apiVars, sseVars, fetchVars, reloadVars, otherVars>>

SpecJoin == Init /\ [][NextJoin]_vars

\* The history file: the simulator persists, saveOEE is called on its own.
InitLog ==
  /\ ReloadInit /\ OtherInit
  /\ ConnInit /\ IngestInit /\ CacheInit /\ JoinInit /\ LogInitAny /\ ApiInit /\ SseInit /\ FetchInit

NextLog ==
  \/ \E payloadOf \in [Lines -> SimPayloads(simNow + intervalMs)] :
        PublishOEE(payloadOf) /\ UNCHANGED <<connVars, ingestVars, cacheVars, joinVars, apiVars, sseVars, fetchVars, reloadVars, otherVars>>
  \/ \E l \in Lines : \E payload \in AnyPayloads(simNow) :
        SaveOEE(l, payload) /\ UNCHANGED <<connVars, ingestVars, cacheVars, joinVars, apiVars, sseVars, fetchVars, reloadVars, otherVars>>

SpecLog == InitLog /\ [][NextLog]_vars

\* The history API: it is called while the history file changes.
NextApi ==
  \/ \E limit \in 0..MaxLimit : \E lineId \in {NoLine, "LINE-01", "LINE-02"} :
       \E rnd \in [1..limit -> BOOLEAN] :
        GetOEEHistoryForAPI(limit, lineId, rnd)
          /\ UNCHANGED <<connVars, ingestVars, joinVars, logVars, sseVars, fetchVars, reloadVars, otherVars>>
  \/ \E f \in HistoryFiles :
        HistoryFileChange(f) /\ UNCHANGED <<connVars, ingestVars, cacheVars, joinVars, apiVars, sseVars, fetchVars, reloadVars, otherVars>>

SpecApi == Init /\ [][NextApi]_vars

\* The history route: it is called while running lines are persisted, in the
\* order of their timestamps or not.
NextHistory ==
  \/ \E l \in Lines : \E t \in {simNow, simNow + intervalMs} :
       \E payload \in {p \in SimPayloads(t) : p.status = "running" /\ p.oee = 45} :
        SaveOEE(l, payload)
          /\ UNCHANGED <<connVars, ingestVars, cacheVars, joinVars, apiVars, sseVars, fetchVars, reloadVars, otherVars>>
  \/ \E limit \in 0..MaxLimit : \E lineId \in {NoLine, "LINE-01", "LINE-02"} :
       \E rnd \in [1..limit -> BOOLEAN] :
        OeeHistoryRoute(limit, lineId, rnd)
          /\ UNCHANGED <<connVars, ingestVars, cacheVars, joinVars, logVars, sseVars, fetchVars, reloadVars, otherVars>>

SpecHistory == InitLog /\ [][NextHistory]_vars

\* The event stream: connections open and close while events are published.
NextSse ==
  \/ EventsOpen
       /\ UNCHANGED <<connVars, ingestVars, cacheVars, joinVars, logVars, apiVars, fetchVars, reloadVars, otherVars>>
  \/ \E c \in DOMAIN sseConns :
        EventsClose(c)
          /\ UNCHANGED <<connVars, ingestVars, cacheVars, joinVars, logVars, apiVars, fetchVars, reloadVars, otherVars>>
  \/ \E topic \in Topics :
        Publish(topic)
          /\ UNCHANGED <<connVars, ingestVars, cacheVars, joinVars, logVars, apiVars, fetchVars, reloadVars, otherVars>>

SpecSse == Init /\ [][NextSse]_vars

\* The heartbeat: the interval fires while connections open and close and
\* other events are published.  The event loop runs the callback of an armed
\* interval: the heartbeat is weakly fair, nothing else is.
BeatOthers == <<connVars, ingestVars, cacheVars, joinVars, logVars, apiVars, fetchVars, reloadVars, otherVars>>

NextBeat ==
  \/ EventsOpen /\ UNCHANGED BeatOthers
  \/ \E c \in DOMAIN sseConns : EventsClose(c) /\ UNCHANGED BeatOthers
  \/ \E topic \in Topics \ {HeartbeatTopic} : Publish(topic) /\ UNCHANGED BeatOthers
  \/ SystemHeartbeat /\ UNCHANGED BeatOthers

SpecBeat == Init /\ [][NextBeat]_vars /\ WF_vars(SystemHeartbeat /\ UNCHANGED BeatOthers)

\* Callers of fetchData: the snapshot is read in every state of the connection.
InitFetch ==
  /\ ConnInit \/ ConnInitNoBroker
  /\ ReloadInit /\ OtherInit
  /\ IngestInit /\ CacheInit /\ JoinInit /\ LogInit /\ ApiInit /\ SseInit /\ FetchInit

NextFetch ==
  \/ \E c \in DOMAIN clients : OnConnect(c)
       /\ UNCHANGED <<ingestVars, cacheVars, joinVars, logVars, apiVars, sseVars, fetchVars, reloadVars, otherVars>>
  \/ \E c \in DOMAIN clients : OnClose(c)
       /\ UNCHANGED <<ingestVars, cacheVars, joinVars, logVars, apiVars, sseVars, fetchVars, reloadVars, otherVars>>
  \/ \E i \in DOMAIN timers : TimerFire(i)
       /\ UNCHANGED <<ingestVars, cacheVars, joinVars, logVars, apiVars, sseVars, fetchVars, reloadVars, otherVars>>
  \/ \E c \in DOMAIN clients : \E msg \in LiveMessages(now) :
        OnMessage(c, msg, 0)
          /\ UNCHANGED <<connVars, cacheVars, joinVars, logVars, apiVars, sseVars, fetchVars, reloadVars, otherVars>>
  \/ Cleanup
       /\ UNCHANGED <<cacheVars, joinVars, logVars, apiVars, sseVars, fetchVars, reloadVars, otherVars>>
  \/ FetchData
       /\ UNCHANGED <<connVars, ingestVars, cacheVars, joinVars, logVars, apiVars, sseVars, reloadVars, otherVars>>

SpecFetch == InitFetch /\ [][NextFetch]_vars

\* The join under every configuration: with and without a broker URL, with
\* the orders from the mock file or from SAP.
InitJoinAny ==
  /\ ReloadInit /\ OtherInit
  /\ ConnInit /\ IngestInit /\ JoinInit /\ LogInit /\ ApiInit /\ SseInit /\ FetchInit
  /\ dataCache = [k \in CacheKeys |-> Absent]
  /\ mockFile = Val("array", <<OrderA>>)
  /\ calls = <<>>
  /\ lastCall = [NewCall("orders", FALSE) EXCEPT !.pc = "none"]
  /\ nCalls = 0
  /\ sourceConfigs \in {DefaultConfig, NoBrokerConfig, SapConfig}
  /\ sapResponse = Val("array", <<OrderA>>)
  /\ tainted = {}

NextJoinAny ==
  \/ \E c \in DOMAIN clients : OnConnect(c)
       /\ UNCHANGED <<ingestVars, cacheVars, joinVars, logVars, apiVars, sseVars, fetchVars, reloadVars, otherVars>>
  \/ \E c \in DOMAIN clients : \E msg \in LiveMessages(now) :
        OnMessage(c, msg, 0)
          /\ UNCHANGED <<connVars, cacheVars, joinVars, logVars, apiVars, sseVars, fetchVars, reloadVars, otherVars>>
  \/ \E f \in JoinFiles : SourceChange(f)
       /\ UNCHANGED <<connVars, ingestVars, joinVars, logVars, apiVars, sseVars, fetchVars, reloadVars, otherVars>>
  \/ \E r \in SapResponses : SapChange(r)
       /\ UNCHANGED <<connVars, ingestVars, joinVars, logVars, apiVars, sseVars, fetchVars, reloadVars, otherVars>>
  \/ JoinFetchOrders /\ UNCHANGED <<connVars, ingestVars, logVars, apiVars, sseVars, fetchVars, reloadVars, otherVars>>
  \/ JoinFinish /\ UNCHANGED <<connVars, ingestVars, logVars, apiVars, sseVars, fetchVars, reloadVars, otherVars>>

SpecJoinAny == InitJoinAny /\ [][NextJoinAny]_vars

\* A reload while getCachedData calls are in progress and the SAP endpoint of the
\* orders changes its answer.
InitReload ==
  /\ ConnInit /\ IngestInit /\ JoinInit /\ LogInit /\ ApiInit /\ SseInit /\ FetchInit
  /\ ReloadInit /\ OtherInit
  /\ dataCache = [k \in CacheKeys |-> Absent]
  /\ mockFile = Val("array", <<OrderA>>)
  /\ calls = <<>>
  /\ lastCall = [NewCall("orders", FALSE) EXCEPT !.pc = "none"]
  /\ nCalls = 0
  /\ sourceConfigs = SapConfig
  /\ sapResponse = Val("array", <<OrderA>>)
  /\ tainted = {}

NextReload ==
  \/ GetCachedData("orders", TRUE)
       /\ UNCHANGED <<connVars, ingestVars, joinVars, logVars, apiVars, sseVars, fetchVars, reloadVars, otherVars>>
  \/ \E i \in DOMAIN calls : LoadResume(i)
       /\ UNCHANGED <<connVars, ingestVars, joinVars, logVars, apiVars, sseVars, fetchVars, reloadVars, otherVars>>
  \/ \E i \in DOMAIN calls : Return(i)
       /\ UNCHANGED <<connVars, ingestVars, joinVars, logVars, apiVars, sseVars, fetchVars, reloadVars, otherVars>>
  \/ \E r \in SapResponses : SapChange(r)
       /\ UNCHANGED <<connVars, ingestVars, joinVars, logVars, apiVars, sseVars, fetchVars, reloadVars, otherVars>>
  \/ ReloadData
       /\ UNCHANGED <<connVars, ingestVars, joinVars, logVars, apiVars, sseVars, fetchVars, otherVars>>
  \/ ReloadConfigured
       /\ UNCHANGED <<connVars, ingestVars, joinVars, logVars, apiVars, sseVars, fetchVars, otherVars>>
  \/ ReloadFetch
       /\ UNCHANGED <<connVars, ingestVars, joinVars, logVars, apiVars, sseVars, fetchVars, otherVars>>
  \/ ReloadResume
       /\ UNCHANGED <<connVars, ingestVars, joinVars, logVars, apiVars, sseVars, fetchVars, otherVars>>
  \/ ReloadDone
       /\ UNCHANGED <<connVars, ingestVars, joinVars, logVars, apiVars, sseVars, fetchVars, otherVars>>

SpecReload == InitReload /\ [][NextReload]_vars

\* Callers change the values they were handed while telemetry arrives and
\* the orders are cached.
NextCaller ==
  \/ \E c \in DOMAIN clients : OnConnect(c)
       /\ UNCHANGED <<ingestVars, cacheVars, joinVars, logVars, apiVars, sseVars, fetchVars, reloadVars, otherVars>>
  \/ \E c \in DOMAIN clients : OnClose(c)
       /\ UNCHANGED <<ingestVars, cacheVars, joinVars, logVars, apiVars, sseVars, fetchVars, reloadVars, otherVars>>
  \/ \E c \in DOMAIN clients : \E msg \in LiveMessages(now) :
        OnMessage(c, msg, 0)
          /\ UNCHANGED <<connVars, cacheVars, joinVars, logVars, apiVars, sseVars, fetchVars, reloadVars, otherVars>>
  \/ GetCachedData("orders", FALSE)
       /\ UNCHANGED <<connVars, ingestVars, joinVars, logVars, apiVars, sseVars, fetchVars, reloadVars, otherVars>>
  \/ \E i \in DOMAIN calls : LoadResume(i)
       /\ UNCHANGED <<connVars, ingestVars, joinVars, logVars, apiVars, sseVars, fetchVars, reloadVars, otherVars>>
  \/ \E i \in DOMAIN calls : Return(i)
       /\ UNCHANGED <<connVars, ingestVars, joinVars, logVars, apiVars, sseVars, fetchVars, reloadVars, otherVars>>
  \/ \E src \in {"fetchData", "getRealtimeOEEData"} : \E change \in {"setField", "pop"} :
       \E i \in 1..Cardinality(Lines) :
         CallerChangesSnapshot(src, change, i)
           /\ UNCHANGED <<connVars, cacheVars, joinVars, logVars, apiVars, sseVars, fetchVars, reloadVars, remoteVars, updateVars, streamVars, sourceVars>>
  \/ CallerChangesCached("orders")
       /\ UNCHANGED <<connVars, ingestVars, joinVars, logVars, apiVars, sseVars, fetchVars, reloadVars, remoteVars, updateVars, streamVars, sourceVars>>

SpecCaller == Init /\ [][NextCaller]_vars

\* Fetches against the remote sources while the endpoints answer, fail,
\* stall or stay silent.
NextRemote ==
  \/ \E src \in RemoteSources : StartFetch(src)
       /\ UNCHANGED <<connVars, ingestVars, cacheVars, joinVars, logVars, apiVars, sseVars, fetchVars, reloadVars, callerVars, updateVars, streamVars, sourceVars>>
  \/ RemoteTick
       /\ UNCHANGED <<connVars, ingestVars, cacheVars, joinVars, logVars, apiVars, sseVars, fetchVars, reloadVars, callerVars, updateVars, streamVars, sourceVars>>
  \/ \E src \in RemoteSources : RemoteTimeout(src)
       /\ UNCHANGED <<connVars, ingestVars, cacheVars, joinVars, logVars, apiVars, sseVars, fetchVars, reloadVars, callerVars, updateVars, streamVars, sourceVars>>
  \/ \E src \in RemoteSources : \E ok \in BOOLEAN : RemoteResponds(src, ok)
       /\ UNCHANGED <<connVars, ingestVars, cacheVars, joinVars, logVars, apiVars, sseVars, fetchVars, reloadVars, callerVars, updateVars, streamVars, sourceVars>>
  \/ \E src \in RemoteSources : RemoteFetchRejects(src)
       /\ UNCHANGED <<connVars, ingestVars, cacheVars, joinVars, logVars, apiVars, sseVars, fetchVars, reloadVars, callerVars, updateVars, streamVars, sourceVars>>
  \/ \E src \in RemoteSources : \E ok \in BOOLEAN : RemoteBody(src, ok)
       /\ UNCHANGED <<connVars, ingestVars, cacheVars, joinVars, logVars, apiVars, sseVars, fetchVars, reloadVars, callerVars, updateVars, streamVars, sourceVars>>

SpecRemote == Init /\ [][NextRemote]_vars

\* Updates through updateDataEntry under every kind of source, while the
\* orders are cached and the remote endpoint changes its answer.
InitUpdate ==
  /\ ReloadInit /\ OtherInit
  /\ ConnInit /\ IngestInit /\ JoinInit /\ LogInit /\ ApiInit /\ SseInit /\ FetchInit
  /\ dataCache = [k \in CacheKeys |-> Absent]
  /\ mockFile = Val("array", <<OrderA>>)
  /\ calls = <<>>
  /\ lastCall = [NewCall("orders", FALSE) EXCEPT !.pc = "none"]
  /\ nCalls = 0
  /\ sourceConfigs \in {DefaultConfig, SapConfig, RestConfig}
  /\ sapResponse = Val("array", <<OrderA>>)
  /\ tainted = {}

NextUpdate ==
  \/ GetCachedData("orders", TRUE)
       /\ UNCHANGED <<connVars, ingestVars, joinVars, logVars, apiVars, sseVars, fetchVars, reloadVars, otherVars>>
  \/ \E i \in DOMAIN calls : LoadResume(i)
       /\ UNCHANGED <<connVars, ingestVars, joinVars, logVars, apiVars, sseVars, fetchVars, reloadVars, otherVars>>
  \/ \E i \in DOMAIN calls : Return(i)
       /\ UNCHANGED <<connVars, ingestVars, joinVars, logVars, apiVars, sseVars, fetchVars, reloadVars, otherVars>>
  \/ \E r \in SapResponses : SapChange(r)
       /\ UNCHANGED <<connVars, ingestVars, joinVars, logVars, apiVars, sseVars, fetchVars, reloadVars, otherVars>>
  \/ \E k \in DataTypes : \E entryId \in {"PO-1", "PO-9"} : UpdateDataEntry(k, entryId)
       /\ UNCHANGED <<connVars, ingestVars, joinVars, logVars, apiVars, sseVars, fetchVars, reloadVars, callerVars, remoteVars, streamVars, sourceVars>>

SpecUpdate == InitUpdate /\ [][NextUpdate]_vars

\* Updates of entries while the orders file is replaced, removed or damaged
\* and the remote endpoint changes its answer.
NextEntryUpdate ==
  \/ \E f \in CacheFiles \cup JoinFiles : SourceChange(f)
       /\ UNCHANGED <<connVars, ingestVars, joinVars, logVars, apiVars, sseVars, fetchVars, reloadVars, otherVars>>
  \/ \E r \in SapResponses : SapChange(r)
       /\ UNCHANGED <<connVars, ingestVars, joinVars, logVars, apiVars, sseVars, fetchVars, reloadVars, otherVars>>
  \/ \E k \in DataTypes : \E entryId \in {"PO-1", "PO-9"} : UpdateDataEntry(k, entryId)
       /\ UNCHANGED <<connVars, ingestVars, joinVars, logVars, apiVars, sseVars, fetchVars, reloadVars, callerVars, remoteVars, streamVars, sourceVars>>

SpecEntryUpdate == InitUpdate /\ [][NextEntryUpdate]_vars

\* MockDataSource.updateData on every file, with every entry id and update.
InitMockUpdate ==
  /\ ReloadInit /\ CallerInit /\ RemoteInit /\ StreamInit /\ SourceInit
  /\ updateOut = [pc |-> "none", type |-> "none", threw |-> FALSE, error |-> "",
                  changed |-> FALSE]
  /\ MockUpdateInitAny
  /\ ConnInit /\ IngestInit /\ CacheInit /\ JoinInit /\ LogInit /\ ApiInit /\ SseInit /\ FetchInit

NextMockUpdate ==
  \E entryId \in {"X", "Y", "W"} : \E updates \in Updates :
     MockUpdateData(entryId, updates)
       /\ UNCHANGED <<connVars, ingestVars, cacheVars, joinVars, logVars, apiVars, sseVars, fetchVars, reloadVars, callerVars, remoteVars, streamVars, sourceVars>>

SpecMockUpdate == InitMockUpdate /\ [][NextMockUpdate]_vars

\* The configuration is loaded again and again, from every kind of file,
\* with and without a broker URL, and the sources are cleaned up.
InitSources ==
  /\ ReloadInit /\ OtherInit
  /\ ConnInit /\ IngestInit /\ JoinInit /\ LogInit /\ ApiInit /\ SseInit /\ FetchInit
  /\ dataCache = [k \in CacheKeys |-> Absent]
  /\ mockFile = Val("array", <<OrderA>>)
  /\ calls = <<>>
  /\ lastCall = [NewCall("orders", FALSE) EXCEPT !.pc = "none"]
  /\ nCalls = 0
  /\ sourceConfigs = [k \in DataTypes |-> "none"]
  /\ sapResponse = Val("array", <<OrderA>>)
  /\ tainted = {}

NextSources ==
  \/ \E file \in ConfigFiles : \E hasBroker \in BOOLEAN :
        LoadDataSourceConfig(file, hasBroker)
          /\ UNCHANGED <<connVars, ingestVars, joinVars, logVars, apiVars, sseVars, fetchVars, reloadVars, callerVars, remoteVars, updateVars, streamVars>>
  \/ CleanupSources
       /\ UNCHANGED <<connVars, ingestVars, cacheVars, joinVars, logVars, apiVars, sseVars, fetchVars, reloadVars, callerVars, remoteVars, updateVars, streamVars>>

SpecSources == InitSources /\ [][NextSources]_vars

\* Event streams open, fail and close while events are emitted.
NextStream ==
  \/ \E kind \in StreamKinds : StreamOpen(kind)
       /\ UNCHANGED <<connVars, ingestVars, cacheVars, joinVars, logVars, apiVars, sseVars, fetchVars, reloadVars, callerVars, remoteVars, updateVars, sourceVars>>
  \/ \E c \in DOMAIN streams : \E event \in {"error", "close"} : StreamRequestEvent(c, event)
       /\ UNCHANGED <<connVars, ingestVars, cacheVars, joinVars, logVars, apiVars, sseVars, fetchVars, reloadVars, callerVars, remoteVars, updateVars, sourceVars>>
  \/ \E failing \in SUBSET {hub.listeners[i] : i \in DOMAIN hub.listeners} : Emit(failing)
       /\ UNCHANGED <<connVars, ingestVars, cacheVars, joinVars, logVars, apiVars, sseVars, fetchVars, reloadVars, callerVars, remoteVars, updateVars, sourceVars>>

SpecStream == Init /\ [][NextStream]_vars

\* Samples with an oee of their own arrive and fetchData() is called.
NextOee ==
  \/ \E c \in DOMAIN clients : OnConnect(c)
       /\ UNCHANGED <<ingestVars, cacheVars, joinVars, logVars, apiVars, sseVars, fetchVars, reloadVars, otherVars>>
  \/ \E c \in DOMAIN clients : \E msg \in OeeMessages(now) :
        OnMessage(c, msg, 0)
          /\ UNCHANGED <<connVars, cacheVars, joinVars, logVars, apiVars, sseVars, fetchVars, reloadVars, otherVars>>
  \/ FetchData
       /\ UNCHANGED <<connVars, ingestVars, cacheVars, joinVars, logVars, apiVars, sseVars, reloadVars, otherVars>>

SpecOee == Init /\ [][NextOee]_vars

(***************************************************************************)
(* Claims about the connection state machine                               *)
(***************************************************************************)
InFlight == {c \in DOMAIN clients : clients[c] = "connecting"}

\* C1: at most one broker connection attempt is in flight at any time: no
\* interleaving of connect, error, close, offline and disconnect events and
\* timer firings leaves two clients connecting at once.
C1_OneAttemptInFlight == Cardinality(InFlight) <= 1

\* a reconnect timer has started a new attempt, which is in flight
C1_Witness ==
  /\ lastEvent.type = "timer"
  /\ Len(clients) >= 2
  /\ clients[Len(clients)] = "connecting"

\* the last of the maxReconnectAttempts retries has been started
Exhausted == reconnectAttempts = maxReconnectAttempts /\ timers = <<>>

\* C2: once the maxReconnectAttempts retries have been used, no step schedules
\* a reconnect timer or starts a connection attempt; the counter leaves the
\* maximum only through a successful connect.
C2_StopsAfterMaxAttempts ==
  [][Exhausted =>
       /\ timers' = <<>>
       /\ clients' \in {clients} \cup
            {[clients EXCEPT ![c] = "connected"] : c \in DOMAIN clients} \cup
            {[clients EXCEPT ![c] = "closed"] : c \in DOMAIN clients}
       /\ reconnectAttempts' \in {maxReconnectAttempts, 0}
       /\ (reconnectAttempts' = 0 => lastEvent'.type = "connect")]_vars

\* the last retry has ended with a close and nothing was scheduled: the client has given up
C2_Witness ==
  /\ Exhausted
  /\ lastEvent.type = "close"
  /\ lastEvent.attemptsBefore = maxReconnectAttempts
  /\ \A c \in DOMAIN clients : clients[c] = "closed"

\* C3 as stated: a close or an error of the connected client schedules one retry.
C3_CloseOrErrorReconnects ==
  (lastEvent.type \in {"close", "error"} /\ lastEvent.wasConnected
     /\ lastEvent.attemptsBefore < maxReconnectAttempts)
    => Len(timers) = lastEvent.timersBefore + 1

\* C3 amended: a close of the connected client schedules exactly one retry and
\* counts it; an error of the connected client schedules nothing.
C3_CloseReconnects ==
  (lastEvent.wasConnected /\ lastEvent.attemptsBefore < maxReconnectAttempts)
    => /\ lastEvent.type = "close" =>
            /\ Len(timers) = lastEvent.timersBefore + 1
            /\ reconnectAttempts = lastEvent.attemptsBefore + 1
            /\ timers[Len(timers)] = backoffDelay(reconnectAttempts)
       /\ lastEvent.type = "error" =>
            /\ Len(timers) = lastEvent.timersBefore
            /\ reconnectAttempts = lastEvent.attemptsBefore

\* the connected client has closed and its retry is pending
C3_Witness ==
  /\ lastEvent.type = "close"
  /\ lastEvent.wasConnected
  /\ Len(timers) = 1

(***************************************************************************)
(* Claims about ingestion                                                  *)
(***************************************************************************)
WellFormed(a) ==
  a.msg.kind = "json" /\ a.msg.payload.line # "" /\ a.msg.payload.metrics # NoMetrics

HasTime(a) == a.msg.payload.timestamp \notin {NoTs, BadTs}

\* the sample arrived older than the staleness threshold
Stale(a) ==
  WellFormed(a) /\ HasTime(a) /\ a.at - a.msg.payload.timestamp > StaleThresholdMs

Arrived == {arrivals[i] : i \in DOMAIN arrivals}

StoredIds(d) == {fetchData(d)[i].id : i \in DOMAIN fetchData(d)}

\* C4: a sample that arrived older than the staleness threshold is never in
\* the output of fetchData().
C4_StaleNeverFetched == \A a \in Arrived : Stale(a) => a.id \notin StoredIds(data)

\* a stale sample has arrived for a line whose earlier sample is still served
C4_Witness ==
  \E a \in Arrived :
    /\ Stale(a)
    /\ \E i \in DOMAIN fetchData(data) :
         /\ fetchData(data)[i].line = a.msg.payload.line
         /\ fetchData(data)[i].id < a.id

\* the code stored the sample
Accepted(a) == WellFormed(a) /\ fresh(dataAgeOf(a.msg.payload, a.at))

\* the id of the accepted sample received last for line l, 0 if there is none
LastAccepted(l) ==
  LET ids == {a.id : a \in {b \in Arrived : Accepted(b) /\ b.msg.payload.line = l}}
  IN IF ids = {} THEN 0 ELSE CHOOSE x \in ids : \A y \in ids : y <= x

\* C5: the snapshot holds at most one sample per line, and it is the accepted
\* sample received last for the line, whatever its timestamp.
C5_LastWriteWins ==
  /\ \A i, j \in DOMAIN data : data[i].key = data[j].key => i = j
  /\ \A i \in DOMAIN data :
       data[i].value.line = data[i].key /\ data[i].value.id = LastAccepted(data[i].key)
  /\ \A l \in Lines : LastAccepted(l) # 0 => \E i \in DOMAIN data : data[i].key = l

\* a sample with an older timestamp has replaced a newer one
C5_Witness ==
  \E a, b \in Arrived :
    /\ a.id < b.id
    /\ Accepted(a) /\ Accepted(b) /\ HasTime(a) /\ HasTime(b)
    /\ a.msg.payload.line = b.msg.payload.line
    /\ b.msg.payload.timestamp < a.msg.payload.timestamp
    /\ \E i \in DOMAIN data : data[i].value.id = b.id

(***************************************************************************)
(* Claims about the cache                                                  *)
(***************************************************************************)
\* C6: for a data type with a configured source, getCachedData invokes the
\* source's fetch exactly when forceRefresh is true or the cache has no entry.
C6_FetchIffForcedOrMissing ==
  /\ \A i \in DOMAIN calls : calls[i].fetched /\ (calls[i].force \/ ~calls[i].hadEntry)
  /\ (lastCall.pc # "none" /\ lastCall.key \in Configured) =>
        (lastCall.fetched <=> (lastCall.force \/ ~lastCall.hadEntry))

\* a forced call has fetched although an entry existed
C6_Witness ==
  lastCall.pc = "done" /\ lastCall.force /\ lastCall.hadEntry /\ lastCall.fetched

IsWorkCenterOf(wc, order) ==
  \/ wc = "UNKNOWN" /\ \A i \in DOMAIN order.operations : order.operations[i] = ""
  \/ \E i \in DOMAIN order.operations :
        /\ order.operations[i] = wc /\ wc # ""
        /\ \A j \in 1..(i - 1) : order.operations[j] = ""

\* C8: the join returns one entry per order, in the orders' order, each with
\* the sample of the order's work center or, without one, the no-data placeholder.
C8_OneEntryPerOrder ==
  (joinPc = "done" /\ joinOrders.kind = "array") =>
    /\ Len(joinOut) = Len(joinOrders.items)
    /\ \A i \in DOMAIN joinOut :
         /\ joinOut[i].order = joinOrders.items[i]
         /\ IsWorkCenterOf(joinOut[i].workCenter, joinOut[i].order)
         /\ joinOut[i].oee.status = "live" =>
              /\ Len(joinOut[i].oee.sample) = 1
              /\ joinOut[i].oee.sample[1].line = joinOut[i].workCenter
              /\ \E k \in DOMAIN joinOee : joinOee[k] = joinOut[i].oee.sample[1]
         /\ joinOut[i].oee.status # "live" =>
              /\ joinOut[i].oee = NoData
              /\ \A k \in DOMAIN joinOee : joinOee[k].line # joinOut[i].workCenter

\* a join of three orders: one with live data, one without
C8_Witness ==
  /\ joinPc = "done"
  /\ Len(joinOut) = 3
  /\ \E i \in DOMAIN joinOut : joinOut[i].oee.status = "live"
  /\ \E i \in DOMAIN joinOut : joinOut[i].oee.status = "no-data"

(***************************************************************************)
(* Claims about the persisted history                                      *)
(***************************************************************************)
\* C9: reloading the history yields the appended records, in order.
C9_RoundTrip ==
  appended # <<>> =>
    /\ loadOEEHistory(fs).kind = "array"
    /\ loadOEEHistory(fs).items = appended

ItemsOf(file) == IF file.kind = "array" THEN file.items ELSE <<>>

IsPrefix(p, q) == Len(p) <= Len(q) /\ SubSeq(q, 1, Len(p)) = p

\* C10: every step leaves the history file as it is or extends the stored
\* sequence at its end: what was stored before stays an unchanged prefix.
C10_AppendOnly ==
  [][\/ fs'[dataFile] = fs[dataFile]
     \/ /\ fs'[dataFile].kind = "array"
        /\ fs[dataFile].kind \in {"missing", "array"}
        /\ IsPrefix(ItemsOf(fs[dataFile]), fs'[dataFile].items)
        /\ Len(fs'[dataFile].items) > Len(ItemsOf(fs[dataFile]))]_vars

\* the file holds the records of two persist rounds
C10_Witness ==
  /\ fs[dataFile].kind = "array"
  /\ Len(fs[dataFile].items) = 4
  /\ lastPersist > Now0 + persistIntervalMs

\* C38: once saveOEE was called, the record of the last call is the last
\* element of the history file, or the call threw to its caller.
C38_NoSilentLoss ==
  appended # <<>> =>
    \/ /\ fs[dataFile].kind = "array"
       /\ fs[dataFile].items # <<>>
       /\ fs[dataFile].items[Len(fs[dataFile].items)] = appended[Len(appended)]
    \/ saveOEEThrows

(***************************************************************************)
(* Claims about the history API                                            *)
(***************************************************************************)
\* the history file is absent, or holds an object or array without keys
LogAbsentOrEmpty(file) == file.kind = "missing" \/ (file.kind \in {"object", "array"} /\ file.items = <<>>)

ListenersOf(subs) == UNION {{subs[p][i] : i \in DOMAIN subs[p]} : p \in Patterns}

\* C12: no listener of a closed connection is still subscribed under any
\* pattern, and no publish made after the close invokes one.
C12_NoListenerAfterClose ==
  /\ \A c \in DOMAIN sseConns : sseConns[c] = "closed" => c \notin ListenersOf(subscriptions)
  /\ \A i \in DOMAIN lastPublish.invoked : lastPublish.invoked[i] \notin lastPublish.closedThen

(***************************************************************************)
(* Claims about the reconnection policy                                    *)
(***************************************************************************)
\* the last event was a close that armed a reconnect timer
CloseScheduled == lastEvent.type = "close" /\ Len(timers) > lastEvent.timersBefore

\* C13: the n-th attempt is scheduled after min(5000 * 2^(n-1), 60000) ms, which
\* is never less than the delay of attempt n-1.
C13_BackoffDelay ==
  CloseScheduled =>
    LET n == lastEvent.attemptsBefore + 1
        delay == timers[Len(timers)]
    IN /\ n \in 1..maxReconnectAttempts
       /\ delay = (IF 5000 * 2^(n - 1) < 60000 THEN 5000 * 2^(n - 1) ELSE 60000)
       /\ n > 1 => delay >= (IF 5000 * 2^(n - 2) < 60000 THEN 5000 * 2^(n - 2) ELSE 60000)

\* the fifth attempt in a row: the first whose delay is capped
C13_Witness ==
  /\ CloseScheduled
  /\ lastEvent.attemptsBefore = 4
  /\ timers = <<60000>>

\* C14: a connect leaves the attempt counter at 0, and the retry scheduled when
\* that connection is lost is the first one, with the base delay.
C14_ConnectResets ==
  /\ lastEvent.type = "connect" => reconnectAttempts = 0
  /\ (lastEvent.type = "close" /\ lastEvent.wasConnected) =>
        /\ reconnectAttempts = 1
        /\ timers = <<reconnectDelay>>

\* a client that connected after three failed attempts loses its connection
C14_Witness ==
  /\ lastEvent.type = "close"
  /\ lastEvent.wasConnected
  /\ lastEvent.client = 4
  /\ timers = <<5000>>

\* the client has given up: the attempts are used up, no timer is pending and
\* no client is connecting or connected
GaveUp ==
  /\ reconnectAttempts = maxReconnectAttempts
  /\ timers = <<>>
  /\ \A c \in DOMAIN clients : clients[c] = "closed"

\* C15 as stated: the status tells a client that has given up apart from one
\* that still retries.  The status of a client that has given up is
\* connected = false with the counter at its maximum, so no client that still
\* retries may report the same.
C15_FailedSurfaced ==
  (~getConnectionStatus(ConnState, data).connected
     /\ getConnectionStatus(ConnState, data).reconnectAttempts = maxReconnectAttempts)
    => GaveUp

\* C15 amended: after the attempts are used up the status reports
\* connected = false and reconnectAttempts at the maximum.
C15_ExhaustedStatus ==
  GaveUp =>
    /\ getConnectionStatus(ConnState, data).connected = FALSE
    /\ getConnectionStatus(ConnState, data).reconnectAttempts = 10

\* the tenth attempt has failed
C15_Witness ==
  /\ GaveUp
  /\ lastEvent.type = "close"
  /\ Len(clients) = 11

(***************************************************************************)
(* Claims about accepted and rejected messages                             *)
(***************************************************************************)
LastArrival == arrivals[Len(arrivals)]

\* age in ms of a sample with a timestamp that parses, 0 without a timestamp
AgeMs(a) ==
  IF a.msg.payload.timestamp = NoTs THEN 0 ELSE a.at - a.msg.payload.timestamp

\* the snapshot holds sample a for its line, with receivedAt and the age in
\* seconds, rounded
StoredAnnotated(a) ==
  \E i \in DOMAIN data :
    /\ data[i].key = a.msg.payload.line
    /\ data[i].value.id = a.id
    /\ data[i].value.receivedAt = a.at
    /\ data[i].value.dataAge * 1000 - 500 <= AgeMs(a)
    /\ AgeMs(a) < data[i].value.dataAge * 1000 + 500

Rejected(a) ==
  \/ a.msg.kind # "json"
  \/ a.msg.payload.line = ""
  \/ a.msg.payload.metrics = NoMetrics
  \/ Stale(a)

\* C17: a step that receives a rejected message leaves the snapshot and the
\* result of fetchData() as they were.
C17_RejectedLeavesSnapshot ==
  [][(arrivals' # arrivals /\ Rejected(arrivals'[Len(arrivals')]))
       => (data' = data /\ fetchData(data') = fetchData(data))]_vars

\* a stale sample was rejected while the snapshot holds an earlier sample of
\* the same line, and one of another line
C17_Witness ==
  /\ arrivals # <<>>
  /\ Stale(LastArrival)
  /\ Len(data) = 2
  /\ \E i \in DOMAIN data :
       data[i].key = LastArrival.msg.payload.line /\ data[i].value.id < LastArrival.id

(***************************************************************************)
(* Claims about fetchData                                                  *)
(***************************************************************************)
\* C18: in whatever state of the connection fetchData() is called, it does not
\* throw and returns the samples of the data map as it is at the call.
C18_FetchNeverThrows ==
  fetchOut.pc = "done" =>
    /\ ~fetchOut.threw
    /\ fetchOut.value = [i \in DOMAIN fetchOut.dataAt |-> fetchOut.dataAt[i].value]

\* fetchData() was called after the client had given up, with a sample stored
C18_Witness ==
  /\ fetchOut.pc = "done"
  /\ fetchOut.phase = "failed"
  /\ fetchOut.value # <<>>

(***************************************************************************)
(* Claims about failing fetches in the join                                *)
(***************************************************************************)
\* C19: building the correlated view never fails: a dataset whose fetch
\* fails is taken as empty and the view is returned.
C19_ViewSurvivesFetchFailure == joinPc # "threw"


(***************************************************************************)
(* Claims about the reload                                                 *)
(***************************************************************************)
\* C20: when reloadData() completes, no cache entry holds data fetched before
\* the reload began.
C20_ReloadLeavesNothingOld == reloadPc = "done" => reloadKept = {}


(***************************************************************************)
(* Claims about the values handed to callers                               *)
(***************************************************************************)
\* C21: what a caller does to a value returned by fetchData(),
\* getRealtimeOEEData() or getCachedData() changes neither the telemetry map
\* nor the cache.
C21_CallersGetCopies == callerOp.pc = "done" => ~callerOp.leaked


(***************************************************************************)
(* Claims about the fetches against remote sources                         *)
(***************************************************************************)
\* C22: a fetch against a remote source settles within its timeout whatever
\* the endpoint does: no fetch is still pending after more than its timeout.
C22_SettlesWithinTimeout ==
  \A src \in RemoteSources :
    Pending(remote[src]) => remoteNow - remote[src].startedAt <= timeoutOf(src)

\* C23: once a remote fetch has settled, by whichever path, the timer it
\* created is no longer pending.
C23_TimerReleased ==
  \A src \in RemoteSources : Settled(remote[src]) => remote[src].timer # "armed"

\* every way of settling has happened with the timer released: the data
\* returned, the timeout, and an error before the timeout
C23_Witness ==
  /\ remote["sap"].pc = "returned" /\ remote["sap"].timer = "cleared"
  /\ remote["rest"].pc = "threwTimeout" /\ remote["rest"].timer = "fired"


(***************************************************************************)
(* Claims about updates                                                    *)
(***************************************************************************)
\* C24: an update on a read-only source (telemetry, SAP, REST) fails with an
\* explicit error and changes neither the cache nor a file.
C24_ReadOnlyUpdateFails ==
  (updateOut.pc = "done" /\ updateOut.type \in ReadOnlySources)
    => /\ updateOut.threw
       /\ updateOut.error = updateError(updateOut.type)
       /\ ~updateOut.changed

\* an update on the SAP source was refused while the orders were cached
C24_Witness ==
  /\ updateOut.pc = "done"
  /\ updateOut.type = "sap"
  /\ updateOut.threw
  /\ dataCache["orders"].kind = "array"

\* the cached data of a data type holds the entry with this id as updateData
\* left it
holdsUpdated(cached, entryId) ==
  /\ cached.kind = "array"
  /\ \E i \in DOMAIN cached.items :
        /\ cached.items[i].orderId = entryId
        /\ "lastUpdated" \in DOMAIN cached.items[i]
        /\ cached.items[i].lastUpdated

\* C37: an updateDataEntry whose source updated the entry returns with the
\* updated entry in the cache of its data type; one that found no source
\* configuration or whose source threw throws, and leaves the cache as it was.
C37_CacheCoherentAfterUpdate ==
  [][\A k \in DataTypes : \A entryId \in {"PO-1", "PO-9"} :
        UpdateDataEntry(k, entryId) =>
          IF sourceConfigs[k] = "none" \/ updateData(sourceConfigs[k], mockFile, entryId).threw
            THEN updateOut'.threw /\ dataCache' = dataCache
            ELSE ~updateOut'.threw /\ holdsUpdated(dataCache'[k], entryId)]_vars

\* an update of an order in a file of three orders has returned, and the
\* cache holds the order as updated
C37_Witness ==
  /\ updateOut.pc = "done"
  /\ updateOut.type = "mock"
  /\ ~updateOut.threw
  /\ updateOut.changed
  /\ holdsUpdated(dataCache["orders"], "PO-1")
  /\ dataCache["orders"] = mockFile
  /\ Len(mockFile.items) = 3


(***************************************************************************)
(* Claims about the listeners of the event bus                             *)
(***************************************************************************)
\* C27: a publish to "oee/status" invokes every listener subscribed to "oee/*"
\* whose connection is open, once each, and none whose connection has closed
\* and unsubscribed.
C27_OnlyRemainingInvoked ==
  lastPublish.topic = Topic("oee", "status")
    => /\ \A i \in DOMAIN lastPublish.invoked : lastPublish.invoked[i] \in lastPublish.openThen
       /\ \A c \in lastPublish.openThen :
            Cardinality({i \in DOMAIN lastPublish.invoked : lastPublish.invoked[i] = c}) = 1

\* of two listeners one had unsubscribed, and the publish invoked the other
C27_Witness ==
  /\ lastPublish.topic = Topic("oee", "status")
  /\ Cardinality(lastPublish.closedThen) = 1
  /\ Cardinality(lastPublish.openThen) = 1
  /\ Len(lastPublish.invoked) = 1


C26_CleanupIdempotent ==
  lastCleanup.n >= 2 => lastCleanup.after = lastCleanup.before

\* a stream was cleaned up a second time while another one still listens
C26_Witness ==
  /\ lastCleanup.n >= 2
  /\ hub.listeners # <<>>
  /\ lastCleanup.stream \in hub.ended


(***************************************************************************)
(* Claims about the stored metrics                                         *)
(***************************************************************************)
\* C28: fetchData() returns one entry per line, and the oee of each is
\* availability x performance x quality with the performance capped at 100 %,
\* whatever oee the message carried.
C28_OeeIsProduct ==
  fetchOut.pc = "done"
    => /\ \A i, j \in DOMAIN fetchOut.value :
            fetchOut.value[i].line = fetchOut.value[j].line => i = j
       /\ \A i \in DOMAIN fetchOut.value :
            fetchOut.value[i].metrics.oee = oeeOf(fetchOut.value[i].metrics)


(***************************************************************************)
(* Claims about what the join fetches                                      *)
(***************************************************************************)
\* C29: getOrdersWithOEE force-refreshes only the telemetry: orders that are
\* in the cache are read from it, their source fetch is not invoked.
C29_CachedOrdersNotFetched == "orders" \notin joinFetched


Beat(b) == lastPublish.topic = HeartbeatTopic /\ heartbeat.beat = b

\* C31: the heartbeat is published again and again, and a connection that
\* stays open from some point on has its listener invoked by a heartbeat
\* again and again, whatever else is published or not.
C31_HeartbeatForever ==
  /\ []<>Beat(0)
  /\ []<>Beat(1)
  /\ \A c \in 1..MaxConns :
       <>[](c \in DOMAIN sseConns /\ sseConns[c] = "open")
         => /\ []<>(Beat(0) /\ \E i \in DOMAIN lastPublish.invoked : lastPublish.invoked[i] = c)
            /\ []<>(Beat(1) /\ \E i \in DOMAIN lastPublish.invoked : lastPublish.invoked[i] = c)

\* the second heartbeat, received by an open connection after another has closed
C31_Witness ==
  /\ Beat(0)
  /\ lastPublish.closedThen # {}
  /\ \E c \in lastPublish.openThen :
       \E i \in DOMAIN lastPublish.invoked : lastPublish.invoked[i] = c


(***************************************************************************)
(* Claims about the update of a local file                                 *)
(***************************************************************************)
\* the indexes of the entries of the file the update found that carry the id
EntriesOf(u) ==
  IF u.before.kind # "array" THEN {}
  ELSE {i \in DOMAIN u.before.items :
          \E f \in {"id", "orderId", "batchId", "issueId"} :
             f \in DOMAIN u.before.items[i] /\ u.before.items[i][f] = u.entryId}

\* C32: an update changes the first entry that carries the id in one of its
\* four identifier fields, to its fields overlaid with the updates and with a
\* lastUpdated stamp, and writes every other entry back as it was, where it
\* was; without such an entry the update throws and the file is as before.
C32_UpdatesFirstMatchOnly ==
  mockUpd.pc = "done" =>
    IF EntriesOf(mockUpd) = {}
      THEN mockUpd.threw /\ mockUpd.file = mockUpd.before
      ELSE LET first == CHOOSE i \in EntriesOf(mockUpd) : \A j \in EntriesOf(mockUpd) : i <= j
               old == mockUpd.before.items[first]
               new == mockUpd.file.items[first]
           IN /\ ~mockUpd.threw
              /\ mockUpd.file.kind = "array"
              /\ Len(mockUpd.file.items) = Len(mockUpd.before.items)
              /\ \A i \in DOMAIN mockUpd.before.items :
                    i # first => mockUpd.file.items[i] = mockUpd.before.items[i]
              /\ DOMAIN new = DOMAIN old \cup DOMAIN mockUpd.updates \cup {"lastUpdated"}
              /\ new["lastUpdated"] = Stamp
              /\ \A f \in DOMAIN new \ {"lastUpdated"} :
                    new[f] = IF f \in DOMAIN mockUpd.updates THEN mockUpd.updates[f] ELSE old[f]
              /\ mockUpd.result = new

\* the second of two entries with the id "X" in different fields is left
\* alone, the first gets the new status
C32_Witness ==
  /\ mockUpd.pc = "done"
  /\ mockUpd.entryId = "X"
  /\ Cardinality(EntriesOf(mockUpd)) >= 2
  /\ mockUpd.file.items[1]["status"] = "closed"
  /\ mockUpd.file.items[2] = mockUpd.before.items[2]


(***************************************************************************)
(* Claims about the telemetry client after cleanup                         *)
(***************************************************************************)
\* C33: once cleanup() has returned there is no client any more and the
\* snapshot is empty, whatever closes and whichever timer fires afterwards.
C33_NothingAfterCleanup == lastEvent.afterCleanup => (client = 0 /\ data = <<>>)


(***************************************************************************)
(* Claims about the recovery of the connection                             *)
(***************************************************************************)
\* the client of the data source has lost its connection
Lost == client # 0 /\ clients[client] = "closed"

\* the client of the data source is connected and has been subscribed
Ready == client # 0 /\ clients[client] = "connected" /\ lastEvent.subscribed

C35_OneTelemetryClient ==
  Cardinality({i \in DOMAIN managed.made : managed.made[i] = "live"}) <= 1


(***************************************************************************)
(* Claims about the bounds of the reconnection                             *)
(***************************************************************************)
\* C36: the attempt counter is within 0..maxReconnectAttempts, and no more
\* than maxReconnectAttempts timers were armed since the last connect.
C36_AttemptsBounded ==
  /\ reconnectAttempts \in 0..maxReconnectAttempts
  /\ lastEvent.scheduled <= maxReconnectAttempts

\* the attempts are used up: ten timers were armed since the last connect,
\* and the close of a client that was replaced arms none
C36_Witness ==
  /\ lastEvent.type = "close"
  /\ client # 0 /\ lastEvent.client # client
  /\ lastEvent.attemptsBefore = maxReconnectAttempts
  /\ lastEvent.scheduled = maxReconnectAttempts
  /\ reconnectAttempts = maxReconnectAttempts

====
